---- MODULE Spec2Model ----
(***************************************************************************)
(* The adaptive summarization engine of slack-export-summary               *)
(* (src/summarize.js): cache lookup, whole-document attempt, two-way and   *)
(* four-way escalation on token-limit errors, one-sentence digest, cache   *)
(* writes.                                                                 *)
(*                                                                         *)
(* A JavaScript string is modelled as a sequence of one-character strings, *)
(* so that trim, includes, replace, split, join and length are computed    *)
(* character by character as the runtime computes them.                    *)
(***************************************************************************)
EXTENDS Integers, Sequences, FiniteSets, TLC

(***************************************************************************)
(* Bounds of the model.                                                    *)
(***************************************************************************)
\* how many times generateMonthSummary is invoked in one behaviour
MaxRuns == 2
\* how many times the clock advances in one behaviour
MaxTicks == 1

\* the most lines of a document a splitter is applied to on its own
MaxLines == 8

\* the most users of users.json
MaxUsers == 2
\* the most messages of the channel general on one date
MaxMessages == 2

(***************************************************************************)
(* String primitives of the JavaScript runtime, as the source uses them.   *)
(***************************************************************************)
Whitespace == {" ", "\n", "\t"}

RECURSIVE TrimStart(_)
TrimStart(s) ==
    IF s # <<>> /\ Head(s) \in Whitespace THEN TrimStart(Tail(s)) ELSE s

RECURSIVE TrimEnd(_)
TrimEnd(s) ==
    IF s # <<>> /\ s[Len(s)] \in Whitespace
    THEN TrimEnd(SubSeq(s, 1, Len(s) - 1))
    ELSE s

\* String.prototype.trim
Trim(s) == TrimEnd(TrimStart(s))

\* sub occurs in s at position i (1-based)
OccursAt(s, sub, i) ==
    /\ i >= 1
    /\ i + Len(sub) - 1 <= Len(s)
    /\ SubSeq(s, i, i + Len(sub) - 1) = sub

\* 1-based position of the first occurrence of sub in s, 0 when there is none
IndexOf(s, sub) ==
    IF \E i \in 1..(Len(s) + 1) : OccursAt(s, sub, i)
    THEN CHOOSE i \in 1..(Len(s) + 1) :
            /\ OccursAt(s, sub, i)
            /\ \A j \in 1..(i - 1) : ~OccursAt(s, sub, j)
    ELSE 0

\* String.prototype.includes
Includes(s, sub) == IndexOf(s, sub) # 0

\* String.prototype.startsWith
StartsWith(s, sub) == OccursAt(s, sub, 1)

\* The replacement text of String.prototype.replace with a string pattern:
\* $$ is a dollar sign, $& the matched text, $' the text after the match;
\* every other character stands for itself.  (The pattern for the text before
\* the match needs a backtick, a character no text of this model contains.)
RECURSIVE GetSubstitution(_, _, _, _)
GetSubstitution(repl, matched, before, after) ==
    IF repl = <<>> THEN <<>>
    ELSE IF Head(repl) = "$" /\ Len(repl) >= 2 /\ repl[2] \in {"$", "&", "'"}
    THEN LET rest == GetSubstitution(SubSeq(repl, 3, Len(repl)), matched, before, after)
         IN  CASE repl[2] = "$" -> <<"$">> \o rest
               [] repl[2] = "&" -> matched \o rest
               [] repl[2] = "'" -> after \o rest
    ELSE <<Head(repl)>> \o GetSubstitution(Tail(repl), matched, before, after)

\* String.prototype.replace(pattern, replacement) with a string pattern:
\* only the first occurrence is replaced
Replace(s, pat, repl) ==
    LET i == IndexOf(s, pat) IN
    IF i = 0 THEN s
    ELSE LET before == SubSeq(s, 1, i - 1)
             after  == SubSeq(s, i + Len(pat), Len(s))
         IN  before \o GetSubstitution(repl, pat, before, after) \o after

\* String.prototype.split("\n"): the lines of a text; the empty text has one
\* (empty) line
RECURSIVE SplitLines(_)
SplitLines(s) ==
    LET i == IndexOf(s, <<"\n">>) IN
    IF i = 0 THEN <<s>>
    ELSE <<SubSeq(s, 1, i - 1)>> \o SplitLines(SubSeq(s, i + 1, Len(s)))

\* Array.prototype.join(sep)
RECURSIVE Join(_, _)
Join(parts, sep) ==
    IF parts = <<>> THEN <<>>
    ELSE IF Len(parts) = 1 THEN parts[1]
    ELSE parts[1] \o sep \o Join(Tail(parts), sep)

\* Array.prototype.slice(from, to) with 0-based from (inclusive) and to
\* (exclusive), both already within 0..length
Slice(arr, from, to) == SubSeq(arr, from + 1, to)

\* Math.min
Min(a, b) == IF a < b THEN a ELSE b

(***************************************************************************)
(* Fixed texts and constants of src/summarize.js.                          *)
(***************************************************************************)
\* no value (JavaScript null): a one-element sequence that is no text, since
\* every element of a text is a single character
Null == <<"null">>

\* 7 * 24 * 60 * 60 * 1000: seven days in milliseconds
maxAge == 7 * 24 * 60 * 60 * 1000

\* the least length of a summary that is not trivial
MinSummaryLength == 10

\* "## "
HeadingMarker == <<"#","#"," ">>

\* "\n\n"
BlankLine == <<"\n","\n">>

\* "**tl;dr:** "
TldrMarker == <<"*","*","t","l",";","d","r",":","*","*"," ">>

\* "No significant activity recorded for this month."
NoActivityText ==
    <<"N","o"," ","s","i","g","n","i","f","i","c","a","n","t"," ","a","c","t",
      "i","v","i","t","y"," ","r","e","c","o","r","d","e","d"," ","f","o","r",
      " ","t","h","i","s"," ","m","o","n","t","h",".">>

\* "Error generating summary: "
ErrorPrefix ==
    <<"E","r","r","o","r"," ","g","e","n","e","r","a","t","i","n","g"," ","s",
      "u","m","m","a","r","y",":"," ">>

\* "Unable to generate summary."
UnableText ==
    <<"U","n","a","b","l","e"," ","t","o"," ","g","e","n","e","r","a","t","e",
      " ","s","u","m","m","a","r","y",".">>

\* "Input tokens exceed"
InputTokensExceed ==
    <<"I","n","p","u","t"," ","t","o","k","e","n","s"," ","e","x","c","e","e","d">>

\* "token limit"
TokenLimit == <<"t","o","k","e","n"," ","l","i","m","i","t">>

\* The monthly files of the model and the month name toLocaleDateString gives
\* each of them ("2021-05.md" -> "May 2021").
MonthFiles == {"2021-05.md", "2021-06.md"}

MonthName(monthFile) ==
    CASE monthFile = "2021-05.md" -> <<"M","a","y"," ","2","0","2","1">>
      [] monthFile = "2021-06.md" -> <<"J","u","n","e"," ","2","0","2","1">>

\* `## ${monthName}\n\n`
Heading(monthName) == HeadingMarker \o monthName \o BlankLine

(***************************************************************************)
(* The cache: one file per month for the summary and one for the           *)
(* one-sentence summary.  A file is absent, present but not parsable as    *)
(* JSON, or holds the record that was written.                             *)
(***************************************************************************)
\* cacheData.timestamp of a record whose timestamp field is missing or is no
\* number (Date.now() gives numbers from 0 on): Date.now() minus it is NaN
NoTimestamp == 0 - 1

AbsentFile  == [exists |-> FALSE, parses |-> FALSE, timestamp |-> 0, text |-> <<>>]
CorruptFile == [exists |-> TRUE,  parses |-> FALSE, timestamp |-> 0, text |-> <<>>]
EntryFile(timestamp, text) ==
    [exists |-> TRUE, parses |-> TRUE, timestamp |-> timestamp, text |-> text]

\* mutant of getCachedSummary: an entry aged exactly maxAge is rejected
getCachedSummary_ExpiresAtMaxAge(file, dateNow) ==
    IF ~file.exists THEN Null
    ELSE IF ~file.parses THEN Null
    ELSE IF dateNow - file.timestamp >= maxAge THEN Null
    ELSE IF file.text = <<>> \/ Len(file.text) < MinSummaryLength THEN Null
    ELSE file.text

\* mutant of getCachedSummary: the length of the stored summary is not checked
getCachedSummary_IgnoresLength(file, dateNow) ==
    IF ~file.exists THEN Null
    ELSE IF ~file.parses THEN Null
    ELSE IF dateNow - file.timestamp > maxAge THEN Null
    ELSE file.text

\* mutant of getCachedSummary: a file that does not parse is read as an entry
getCachedSummary_TrustsCorrupt(file, dateNow) ==
    IF ~file.exists THEN Null
    ELSE IF dateNow - file.timestamp > maxAge THEN Null
    ELSE IF file.parses /\ (file.text = <<>> \/ Len(file.text) < MinSummaryLength) THEN Null
    ELSE file.text

\* getCachedSummary: the summary stored in `file`, or null; cacheAge > maxAge
\* is false when cacheAge is NaN
getCachedSummary(file, dateNow) ==
    IF ~file.exists THEN Null
    ELSE IF ~file.parses THEN Null
    ELSE IF file.timestamp # NoTimestamp /\ dateNow - file.timestamp > maxAge THEN Null
    ELSE IF file.text = <<>> \/ Len(file.text) < MinSummaryLength THEN Null
    ELSE file.text

\* saveToCache: the file that replaces the month's cache file
saveToCache(summary, dateNow) == EntryFile(dateNow, summary)

\* the cached one-sentence summary generateOneSentenceSummary reuses, or null;
\* cacheAge <= maxAge is false when cacheAge is NaN
getCachedOneSentence(file, dateNow) ==
    IF ~file.exists THEN Null
    ELSE IF ~file.parses THEN Null
    ELSE IF file.timestamp # NoTimestamp /\ dateNow - file.timestamp <= maxAge
            /\ file.text # <<>> THEN file.text
    ELSE Null

(***************************************************************************)
(* The splitter.                                                           *)
(***************************************************************************)
\* the first index i in from..(to - 1) (0-based) whose line starts with "## ",
\* or dflt when there is none
FirstBoundary(lines, from, to, dflt) ==
    IF \E i \in from..(to - 1) : StartsWith(lines[i + 1], HeadingMarker)
    THEN CHOOSE i \in from..(to - 1) :
            /\ StartsWith(lines[i + 1], HeadingMarker)
            /\ \A j \in from..(i - 1) : ~StartsWith(lines[j + 1], HeadingMarker)
    ELSE dflt

\* mutant of splitMonthContent: the line at the split index is left out
splitMonthContent_SkipsSplitLine(content) ==
    LET lines      == SplitLines(content)
        midPoint   == Len(lines) \div 2
        splitIndex == FirstBoundary(lines, midPoint, Len(lines), midPoint)
    IN  [firstHalf  |-> Join(Slice(lines, 0, splitIndex), <<"\n">>),
         secondHalf |-> Join(Slice(lines, splitIndex + 1, Len(lines)), <<"\n">>)]

\* mutant of splitMonthContent: the scan does not stop at the first boundary
\* line, so the last one is the split index
splitMonthContent_LastBoundary(content) ==
    LET lines      == SplitLines(content)
        midPoint   == Len(lines) \div 2
        boundaries == { i \in midPoint..(Len(lines) - 1) :
                           StartsWith(lines[i + 1], HeadingMarker) }
        splitIndex == IF boundaries = {} THEN midPoint
                      ELSE CHOOSE i \in boundaries : \A j \in boundaries : j <= i
    IN  [firstHalf  |-> Join(Slice(lines, 0, splitIndex), <<"\n">>),
         secondHalf |-> Join(Slice(lines, splitIndex, Len(lines)), <<"\n">>)]

\* splitMonthContent
splitMonthContent(content) ==
    LET lines      == SplitLines(content)
        midPoint   == Len(lines) \div 2
        splitIndex == FirstBoundary(lines, midPoint, Len(lines), midPoint)
    IN  [firstHalf  |-> Join(Slice(lines, 0, splitIndex), <<"\n">>),
         secondHalf |-> Join(Slice(lines, splitIndex, Len(lines)), <<"\n">>)]

\* mutant of splitPoints: without a boundary the split point is the middle of
\* the document, as in splitMonthContent
splitPoints_MidpointDefault(lines) ==
    LET quarterSize == Len(lines) \div 4
    IN  [quarter \in 1..3 |->
            LET targetIndex == quarter * quarterSize
            IN  FirstBoundary(lines, targetIndex,
                              Min(targetIndex + quarterSize, Len(lines)),
                              Len(lines) \div 2)]

\* mutant of splitPoints: the scan covers the lines around the target, from
\* one quarter-length before it
splitPoints_AroundTarget(lines) ==
    LET quarterSize == Len(lines) \div 4
    IN  [quarter \in 1..3 |->
            LET targetIndex == quarter * quarterSize
            IN  FirstBoundary(lines, targetIndex - quarterSize,
                              Min(targetIndex + quarterSize, Len(lines)),
                              targetIndex)]

\* mutant of splitPoints: the scan for a boundary runs to the end of the
\* document instead of stopping one quarter-length after the target
splitPoints_UnboundedScan(lines) ==
    LET quarterSize == Len(lines) \div 4
    IN  [quarter \in 1..3 |->
            LET targetIndex == quarter * quarterSize
            IN  FirstBoundary(lines, targetIndex, Len(lines), targetIndex)]

\* the three split points of splitMonthContentIntoFour
splitPoints(lines) ==
    LET quarterSize == Len(lines) \div 4
    IN  [quarter \in 1..3 |->
            LET targetIndex == quarter * quarterSize
            IN  FirstBoundary(lines, targetIndex,
                              Min(targetIndex + quarterSize, Len(lines)),
                              targetIndex)]

\* splitMonthContentIntoFour
splitMonthContentIntoFour(content) ==
    LET lines == SplitLines(content)
        sp    == splitPoints(lines)
    IN  << Join(Slice(lines, 0, sp[1]), <<"\n">>),
           Join(Slice(lines, sp[1], sp[2]), <<"\n">>),
           Join(Slice(lines, sp[2], sp[3]), <<"\n">>),
           Join(Slice(lines, sp[3], Len(lines)), <<"\n">>) >>

(***************************************************************************)
(* The inputs of the model: monthly documents, and what the chat           *)
(* completion API may answer to one request.                               *)
(***************************************************************************)
\* a one-line document: "hello"
ShortDocument == <<"h","e","l","l","o">>

\* an eight-line document with three date sections:
\* "## 1", "a", "## 2", "b", "c", "## 3", "d", "e"
LongDocument ==
    Join(<< <<"#","#"," ","1">>, <<"a">>, <<"#","#"," ","2">>, <<"b">>, <<"c">>,
            <<"#","#"," ","3">>, <<"d">>, <<"e">> >>, <<"\n">>)

Documents == {ShortDocument, LongDocument}

\* message.content of a completion answering a summarize request:
\* "", " Too short\n" (9 characters once trimmed), "Summary A." (10 characters)
WholeContents ==
    { <<>>,
      <<" ","T","o","o"," ","s","h","o","r","t","\n">>,
      <<"S","u","m","m","a","r","y"," ","A",".">> }

\* message.content of a completion answering the request for the first half:
\* "  ", "Part 1"
FirstHalfContents == { <<" "," ">>, <<"P","a","r","t"," ","1">> }

\* message.content of a completion answering the request for the second half:
\* "  ", " Part 2\n"
SecondHalfContents == { <<" "," ">>, <<" ","P","a","r","t"," ","2","\n">> }

\* message.content of a completion answering the request for quarter i:
\* "  ", " Q<i> "
QuarterContents(i) ==
    { <<" "," ">>,
      <<" ", "Q", (CASE i = 1 -> "1" [] i = 2 -> "2" [] i = 3 -> "3" [] OTHER -> "4"), " ">> }

\* message.content of a completion answering the combine request:
\* " Combined "
CombineContents == { <<" ","C","o","m","b","i","n","e","d"," ">> }

\* message.content of a completion answering the one-sentence request:
\* " One line. ", "Paid $$5 $&"
OneSentenceContents ==
    { <<" ","O","n","e"," ","l","i","n","e","."," ">>,
      <<"P","a","i","d"," ","$","$","5"," ","$","&">> }

\* error.message of a failed request: "Input tokens exceed 8192",
\* "over token limit", "quota"
ErrorMessages ==
    { <<"I","n","p","u","t"," ","t","o","k","e","n","s"," ","e","x","c","e","e",
        "d"," ","8","1","9","2">>,
      <<"o","v","e","r"," ","t","o","k","e","n"," ","l","i","m","i","t">>,
      <<"q","u","o","t","a">> }

Completion(content) == [ok |-> TRUE, content |-> content, message |-> <<>>]
Failure(message)    == [ok |-> FALSE, content |-> <<>>, message |-> message]

\* error.message of a failed combine or one-sentence request:
\* "over token limit", "quota"
LateErrorMessages ==
    { <<"o","v","e","r"," ","t","o","k","e","n"," ","l","i","m","i","t">>,
      <<"q","u","o","t","a">> }

\* what openai.chat.completions.create may do with a request: complete with
\* one of `contents`, or fail with one of `messages`
Outcomes(contents, messages) ==
    {Completion(c) : c \in contents} \cup {Failure(m) : m \in messages}

(***************************************************************************)
(* State.                                                                  *)
(***************************************************************************)
VARIABLES
    now,                \* Date.now(), in milliseconds
    ticks,              \* how often the clock has advanced
    runs,               \* how often generateMonthSummary has been invoked
    docs,               \* monthFile -> content of output/<monthFile>
    cache,              \* monthFile -> cache/<month>.json
    oneSentenceCache,   \* monthFile -> cache/<month>-onesentence.json
    pc,                 \* where generateMonthSummary stands
    monthFile,          \* its argument
    origin,             \* which branch called generateOneSentenceSummary
    fullSummary,        \* cachedSummary / formattedSummary of that branch
    halves,             \* { firstHalf, secondHalf } of the two-part branch
    firstCompletion,    \* message.content of the first half's completion
    quarters,           \* the four quarters of the four-part branch
    quarterSummaries,   \* the quarter summaries pushed so far
    oneSentenceSummary, \* what generateOneSentenceSummary returned
    result,             \* the value generateMonthSummary returned, or null
    exit,               \* which return statement produced it
    last,               \* the latest request to the API and its outcome
    calls,              \* requests made since the invocation, by kind
    cacheDir,           \* whether the cache directory exists
    outputDir,          \* the output directory: whether it exists, its entries
    mainPc,             \* where main stands
    monthlyFiles,       \* main's monthlyFiles
    cachedCount,        \* main's cachedCount
    needsApiCallCount,  \* main's needsApiCallCount
    answer,             \* what the operator typed at the question
    allSummaries,       \* main's summaries
    processed,          \* main's processed
    apiCallsMade,       \* main's apiCallsMade
    wasCached,          \* main's wasCached of the current month
    header,             \* main's header
    summaryFile,        \* the content of summary.md, or null
    exitCode,           \* the code the process exited with, or -1
    splitArg,           \* the content a splitter is applied to on its own
    splitTwoResult,     \* what splitMonthContent returned for it
    splitFourResult,    \* what splitMonthContentIntoFour returned for it
    exportPc,           \* which function of index.js has been applied, if any
    users,              \* the argument of createUserMapping
    userMap,            \* the Map createUserMapping returned
    monthData,          \* the Map of dates to channels to messages of a month
    options,            \* the options of the command line
    markdown,           \* what generateMonthMarkdown returned, or null
    cachePc,            \* where saveToCache and getCachedSummary stand on their own
    cacheFile,          \* the characters of the cache file of May 2021, or null
    putSummary,         \* the summary saveToCache is called with
    gotSummary          \* what getCachedSummary returned afterwards

locals == <<origin, fullSummary, halves, firstCompletion, quarters,
            quarterSummaries, oneSentenceSummary>>
files  == <<cache, oneSentenceCache>>
clock  == <<now, ticks>>
\* main's own state
mainVars == <<outputDir, mainPc, monthlyFiles, cachedCount, needsApiCallCount,
              answer, allSummaries, processed, apiCallsMade, wasCached, header,
              summaryFile, exitCode>>
\* the state of a splitter applied on its own
splitVars == <<splitArg, splitTwoResult, splitFourResult>>
\* the state of the functions of index.js applied on their own
exportVars == <<exportPc, users, userMap, monthData, options, markdown>>
\* the state of saveToCache and getCachedSummary applied on their own
cacheVars == <<cachePc, cacheFile, putSummary, gotSummary>>
\* what no step of generateMonthSummary touches
caller == <<mainVars, splitVars, exportVars, cacheVars>>
vars   == <<now, ticks, runs, docs, cache, oneSentenceCache, pc, monthFile,
            origin, fullSummary, halves, firstCompletion, quarters,
            quarterSummaries, oneSentenceSummary, result, exit, last, calls,
            cacheDir, mainVars, splitVars, exportVars, cacheVars>>

CallKinds == {"whole", "first", "second", "quarter", "combine", "oneSentence"}

NoHalves == [firstHalf |-> <<>>, secondHalf |-> <<>>]
NoCall   == [kind |-> "none", input |-> <<>>, outcome |-> Failure(<<>>)]
NoCalls  == [k \in CallKinds |-> 0]

\* the month files generateMonthSummary is invoked on
InvokedFiles == {"2021-05.md"}

LocalsCleared ==
    /\ origin' = "none"
    /\ fullSummary' = <<>>
    /\ halves' = NoHalves
    /\ firstCompletion' = <<>>
    /\ quarters' = <<>>
    /\ quarterSummaries' = <<>>
    /\ oneSentenceSummary' = <<>>

\* main is not running
MainOff ==
    /\ outputDir = [exists |-> TRUE, entries |-> MonthFiles]
    /\ mainPc = "off"
    /\ monthlyFiles = <<>>
    /\ cachedCount = 0
    /\ needsApiCallCount = 0
    /\ answer = <<>>
    /\ allSummaries = <<>>
    /\ processed = 0
    /\ apiCallsMade = 0
    /\ wasCached = FALSE
    /\ header = <<>>
    /\ summaryFile = Null
    /\ exitCode = -1

\* saveToCache and getCachedSummary are not applied on their own
CacheOff ==
    /\ cachePc = "off"
    /\ cacheFile = Null
    /\ putSummary = Null
    /\ gotSummary = Null

\* no function of index.js is applied
ExportOff ==
    /\ exportPc = "off"
    /\ users = <<>>
    /\ userMap = <<>>
    /\ monthData = <<>>
    /\ options = [timestamps |-> TRUE]
    /\ markdown = Null

\* splitMonthContent has not returned
NotSplit == [firstHalf |-> Null, secondHalf |-> Null]

\* no splitter is applied on its own
SplitOff ==
    /\ splitArg = Null
    /\ splitTwoResult = NotSplit
    /\ splitFourResult = <<>>

\* no invocation of generateMonthSummary has begun
Idle ==
    /\ now = 0
    /\ ticks = 0
    /\ runs = 0
    /\ pc = "idle"
    /\ monthFile = "2021-05.md"
    /\ origin = "none"
    /\ fullSummary = <<>>
    /\ halves = NoHalves
    /\ firstCompletion = <<>>
    /\ quarters = <<>>
    /\ quarterSummaries = <<>>
    /\ oneSentenceSummary = <<>>
    /\ result = Null
    /\ exit = "none"
    /\ last = NoCall
    /\ calls = NoCalls

Init ==
    /\ docs \in [MonthFiles -> Documents]
    /\ \A m \in MonthFiles \ InvokedFiles : docs[m] = ShortDocument
    /\ cache = [m \in MonthFiles |-> AbsentFile]
    /\ oneSentenceCache = [m \in MonthFiles |-> AbsentFile]
    /\ cacheDir = FALSE
    /\ Idle
    /\ ExportOff
    /\ CacheOff
    /\ MainOff
    /\ SplitOff

(***************************************************************************)
(* Requests to the API.                                                    *)
(***************************************************************************)
\* mutant of IsTokenLimitError: every error counts as a token limit error
IsTokenLimitError_Always(message) == TRUE

\* error.message.includes("Input tokens exceed") ||
\* error.message.includes("token limit")
IsTokenLimitError(message) ==
    Includes(message, InputTokensExceed) \/ Includes(message, TokenLimit)

\* `# ${monthName}\n\n${content}`
WholePrompt(monthName, content) ==
    <<"#"," ">> \o monthName \o BlankLine \o content

\* `# ${monthName} (First Half)\n\n${firstHalf}`
FirstHalfPrompt(monthName, firstHalf) ==
    <<"#"," ">> \o monthName
        \o <<" ","(","F","i","r","s","t"," ","H","a","l","f",")">>
        \o BlankLine \o firstHalf

\* `# ${monthName} (Second Half)\n\n${secondHalf}`
SecondHalfPrompt(monthName, secondHalf) ==
    <<"#"," ">> \o monthName
        \o <<" ","(","S","e","c","o","n","d"," ","H","a","l","f",")">>
        \o BlankLine \o secondHalf

\* quarterNames[i] with its first letter in upper case (i is 1-based here)
QuarterName(i) ==
    CASE i = 1 -> <<"F","i","r","s","t">>
      [] i = 2 -> <<"S","e","c","o","n","d">>
      [] i = 3 -> <<"T","h","i","r","d">>
      [] i = 4 -> <<"F","o","u","r","t","h">>

\* `# ${monthName} (${Name} Quarter)\n\n${quarters[i]}`
QuarterPrompt(monthName, i, quarter) ==
    <<"#"," ">> \o monthName \o <<" ","(">> \o QuarterName(i)
        \o <<" ","Q","u","a","r","t","e","r",")">> \o BlankLine \o quarter

\* the request is recorded and counted
Requested(kind, input, outcome) ==
    /\ last' = [kind |-> kind, input |-> input, outcome |-> outcome]
    /\ calls' = [calls EXCEPT ![kind] = @ + 1]

\* mutant of ErrorBlock: the error text is returned without the heading
ErrorBlock_NoHeading(monthName, message) == ErrorPrefix \o message

\* `## ${monthName}\n\nError generating summary: ${error.message}`
ErrorBlock(monthName, message) == Heading(monthName) \o ErrorPrefix \o message

\* `## ${monthName}\n\nNo significant activity recorded for this month.`
Placeholder(monthName) == Heading(monthName) \o NoActivityText

\* mutant of WithTldr: the summary's body is lost when the tl;dr line is added
WithTldr_DropsBody(summary, monthName, oneSentence) ==
    Heading(monthName) \o TldrMarker \o oneSentence \o BlankLine

\* formattedSummary.replace(`## ${monthName}\n\n`,
\*     `## ${monthName}\n\n**tl;dr:** ${oneSentenceSummary}\n\n`)
WithTldr(summary, monthName, oneSentence) ==
    Replace(summary, Heading(monthName),
            Heading(monthName) \o TldrMarker \o oneSentence \o BlankLine)

\* generateMonthSummary returns `text` from the return statement `from`
Return(text, from) ==
    /\ result' = text
    /\ exit' = from
    /\ pc' = "returned"
    /\ LocalsCleared

\* the catch blocks' last resort: the inline error block is returned
ReturnError(message) == Return(ErrorBlock(MonthName(monthFile), message), "error")

(***************************************************************************)
(* generateMonthSummary, one action per stretch of code between two        *)
(* awaited requests.                                                       *)
(***************************************************************************)
\* generateMonthSummary(m, outputDir) is entered
Enter(m) ==
    /\ monthFile' = m
    /\ pc' = "start"
    /\ result' = Null
    /\ exit' = "none"
    /\ last' = NoCall
    /\ calls' = NoCalls
    /\ LocalsCleared

\* a caller other than main invokes generateMonthSummary(m, outputDir)
Invoke(m) ==
    /\ pc \in {"idle", "returned"}
    /\ runs < MaxRuns
    /\ runs' = runs + 1
    /\ Enter(m)
    /\ UNCHANGED <<clock, docs, files, cacheDir, caller>>

\* "Check cache first": a cached summary goes straight to the one-sentence
\* summary, otherwise the whole month is sent
CheckCache ==
    /\ pc = "start"
    /\ LET cachedSummary == getCachedSummary(cache[monthFile], now) IN
       IF cachedSummary # Null
       THEN /\ origin' = "cached"
            /\ fullSummary' = cachedSummary
            /\ pc' = "oneSentence"
       ELSE /\ pc' = "whole"
            /\ UNCHANGED <<origin, fullSummary>>
    /\ UNCHANGED <<clock, runs, docs, files, monthFile, halves, firstCompletion,
                   quarters, quarterSummaries, oneSentenceSummary, result, exit,
                   last, calls>>
    /\ cacheDir' = TRUE
    /\ UNCHANGED caller

\* the month's content the two-part branch splits
TwoWayHalves(content) == splitMonthContent(content)

\* the completion of the whole-month request, or its failure
SummarizeWhole(outcome) ==
    /\ pc = "whole"
    /\ Requested("whole", WholePrompt(MonthName(monthFile), docs[monthFile]), outcome)
    /\ IF outcome.ok
       THEN LET summary == Trim(outcome.content) IN
            IF summary = <<>> \/ Len(summary) < MinSummaryLength
            THEN /\ cache' = [cache EXCEPT ![monthFile] =
                                 saveToCache(Placeholder(MonthName(monthFile)), now)]
                 /\ Return(Placeholder(MonthName(monthFile)), "placeholder")
            ELSE /\ origin' = "whole"
                 /\ fullSummary' = Heading(MonthName(monthFile)) \o summary
                 /\ pc' = "oneSentence"
                 /\ UNCHANGED <<cache, halves, firstCompletion, quarters,
                                quarterSummaries, oneSentenceSummary, result, exit>>
       ELSE IF IsTokenLimitError(outcome.message)
            THEN /\ halves' = TwoWayHalves(docs[monthFile])
                 /\ pc' = "first"
                 /\ UNCHANGED <<cache, origin, fullSummary, firstCompletion, quarters,
                                quarterSummaries, oneSentenceSummary, result, exit>>
            ELSE /\ ReturnError(outcome.message)
                 /\ UNCHANGED cache
    /\ UNCHANGED <<clock, runs, docs, oneSentenceCache, monthFile>>
    /\ UNCHANGED <<cacheDir, caller>>

\* mutant of FourWayQuarters: the second half is split, not the whole month
FourWayQuarters_OfSecondHalf(content) ==
    splitMonthContentIntoFour(splitMonthContent(content).secondHalf)

\* the month's content the four-part branch splits
FourWayQuarters(content) == splitMonthContentIntoFour(content)

\* mutant of SplitErrorCaught: every failure of a half starts the four-part
\* branch
SplitErrorCaught_AlwaysFour(message) ==
    /\ quarters' = splitMonthContentIntoFour(docs[monthFile])
    /\ pc' = "quarter"
    /\ halves' = NoHalves
    /\ firstCompletion' = <<>>
    /\ UNCHANGED <<origin, fullSummary, quarterSummaries, oneSentenceSummary,
                   result, exit>>

\* catch (splitError): a token limit error of either half starts the
\* four-part branch, any other error is returned inline
SplitErrorCaught(message) ==
    IF IsTokenLimitError(message)
    THEN /\ quarters' = FourWayQuarters(docs[monthFile])
         /\ pc' = "quarter"
         /\ halves' = NoHalves
         /\ firstCompletion' = <<>>
         /\ UNCHANGED <<origin, fullSummary, quarterSummaries, oneSentenceSummary,
                        result, exit>>
    ELSE ReturnError(message)

\* the completion of the first half's request, or its failure
SummarizeFirstHalf(outcome) ==
    /\ pc = "first"
    /\ Requested("first", FirstHalfPrompt(MonthName(monthFile), halves.firstHalf), outcome)
    /\ IF outcome.ok
       THEN /\ firstCompletion' = outcome.content
            /\ pc' = "second"
            /\ UNCHANGED <<origin, fullSummary, halves, quarters, quarterSummaries,
                           oneSentenceSummary, result, exit>>
       ELSE SplitErrorCaught(outcome.message)
    /\ UNCHANGED <<clock, runs, docs, files, monthFile>>
    /\ UNCHANGED <<cacheDir, caller>>

\* mutant of CombinedHalves: the second summary comes first
CombinedHalves_Swapped(firstSummary, secondSummary) == secondSummary \o firstSummary

\* `${firstSummary}${secondSummary}`
CombinedHalves(firstSummary, secondSummary) == firstSummary \o secondSummary

\* the completion of the second half's request, or its failure
SummarizeSecondHalf(outcome) ==
    /\ pc = "second"
    /\ Requested("second", SecondHalfPrompt(MonthName(monthFile), halves.secondHalf), outcome)
    /\ IF outcome.ok
       THEN LET firstSummary  == Trim(firstCompletion)
                secondSummary == Trim(outcome.content)
            IN  /\ origin' = "halves"
                /\ fullSummary' = Heading(MonthName(monthFile))
                                     \o CombinedHalves(firstSummary, secondSummary)
                /\ pc' = "oneSentence"
                /\ halves' = NoHalves
                /\ firstCompletion' = <<>>
                /\ UNCHANGED <<quarters, quarterSummaries, oneSentenceSummary,
                               result, exit>>
       ELSE SplitErrorCaught(outcome.message)
    /\ UNCHANGED <<clock, runs, docs, files, monthFile>>
    /\ UNCHANGED <<cacheDir, caller>>

\* mutant of FourPartErrorCaught: a quarter that exceeds the token limit is
\* requested again
FourPartErrorCaught_Retry(message) ==
    IF IsTokenLimitError(message)
    THEN /\ pc' = "quarter"
         /\ UNCHANGED <<locals, result, exit>>
    ELSE ReturnError(message)

\* catch (fourPartError): every failure of a quarter is returned inline
FourPartErrorCaught(message) == ReturnError(message)

\* the completion of the next quarter's request, or its failure
SummarizeQuarter(outcome) ==
    /\ pc = "quarter"
    /\ LET i == Len(quarterSummaries) + 1 IN
       /\ Requested("quarter", QuarterPrompt(MonthName(monthFile), i, quarters[i]), outcome)
       /\ IF outcome.ok
          THEN /\ quarterSummaries' = Append(quarterSummaries, Trim(outcome.content))
               /\ pc' = IF i < Len(quarters) THEN "quarter" ELSE "combine"
               /\ UNCHANGED <<origin, fullSummary, halves, firstCompletion, quarters,
                              oneSentenceSummary, result, exit>>
          ELSE FourPartErrorCaught(outcome.message)
    /\ UNCHANGED <<clock, runs, docs, files, monthFile>>
    /\ UNCHANGED <<cacheDir, caller>>

\* "Please combine these four summaries for "
CombineIntro ==
    <<"P","l","e","a","s","e"," ","c","o","m","b","i","n","e"," ","t","h",
      "e","s","e"," ","f","o","u","r"," ","s","u","m","m","a","r","i","e",
      "s"," ","f","o","r"," ">>

\* " into one comprehensive summary:\n\nFirst quarter summary:\n"
CombineFirstLabel ==
    <<" ","i","n","t","o"," ","o","n","e"," ","c","o","m","p","r","e","h",
      "e","n","s","i","v","e"," ","s","u","m","m","a","r","y",":","\n","\n",
      "F","i","r","s","t"," ","q","u","a","r","t","e","r"," ","s","u","m",
      "m","a","r","y",":","\n">>

\* "\n\nSecond quarter summary:\n"
CombineSecondLabel ==
    <<"\n","\n","S","e","c","o","n","d"," ","q","u","a","r","t","e","r"," ",
      "s","u","m","m","a","r","y",":","\n">>

\* "\n\nThird quarter summary:\n"
CombineThirdLabel ==
    <<"\n","\n","T","h","i","r","d"," ","q","u","a","r","t","e","r"," ","s",
      "u","m","m","a","r","y",":","\n">>

\* "\n\nFourth quarter summary:\n"
CombineFourthLabel ==
    <<"\n","\n","F","o","u","r","t","h"," ","q","u","a","r","t","e","r"," ",
      "s","u","m","m","a","r","y",":","\n">>

\* the user message of combineFourSummaries
CombinePrompt(summaries, monthName) ==
    CombineIntro \o monthName
        \o CombineFirstLabel \o summaries[1]
        \o CombineSecondLabel \o summaries[2]
        \o CombineThirdLabel \o summaries[3]
        \o CombineFourthLabel \o summaries[4]

\* mutant of combineFourSummaries: the fallback keeps the first summary only
combineFourSummaries_FirstOnly(summaries, outcome) ==
    IF outcome.ok THEN Trim(outcome.content) ELSE summaries[1]

\* combineFourSummaries: the trimmed completion, or summaries.join("\n\n")
\* when the request fails
combineFourSummaries(summaries, outcome) ==
    IF outcome.ok THEN Trim(outcome.content) ELSE Join(summaries, BlankLine)

\* the combine request's completion or failure
CombineFour(outcome) ==
    /\ pc = "combine"
    /\ Requested("combine", CombinePrompt(quarterSummaries, MonthName(monthFile)), outcome)
    /\ origin' = "quarters"
    /\ fullSummary' = Heading(MonthName(monthFile))
                         \o combineFourSummaries(quarterSummaries, outcome)
    /\ pc' = "oneSentence"
    /\ quarters' = <<>>
    /\ quarterSummaries' = <<>>
    /\ UNCHANGED <<halves, firstCompletion, oneSentenceSummary, result, exit>>
    /\ UNCHANGED <<clock, runs, docs, files, monthFile>>
    /\ UNCHANGED <<cacheDir, caller>>

\* generateOneSentenceSummary up to its request: a valid cached sentence is
\* returned at once
OneSentenceCheck ==
    /\ pc = "oneSentence"
    /\ LET cached == getCachedOneSentence(oneSentenceCache[monthFile], now) IN
       IF cached # Null
       THEN /\ oneSentenceSummary' = cached
            /\ pc' = "splice"
       ELSE /\ pc' = "oneSentenceCall"
            /\ UNCHANGED oneSentenceSummary
    /\ UNCHANGED <<clock, runs, docs, files, monthFile, origin, fullSummary, halves,
                   firstCompletion, quarters, quarterSummaries, result, exit,
                   last, calls>>
    /\ UNCHANGED <<cacheDir, caller>>

\* "Please create a one-sentence summary of this month's activities:\n\n"
OneSentenceIntro ==
    <<"P","l","e","a","s","e"," ","c","r","e","a","t","e"," ","a"," ","o",
      "n","e","-","s","e","n","t","e","n","c","e"," ","s","u","m","m","a",
      "r","y"," ","o","f"," ","t","h","i","s"," ","m","o","n","t","h","'",
      "s"," ","a","c","t","i","v","i","t","i","e","s",":","\n","\n">>

\* the user message of generateOneSentenceSummary
OneSentencePrompt(summary) == OneSentenceIntro \o summary

\* mutant of OneSentenceCall: a failed request is not caught in
\* generateOneSentenceSummary and ends the month with the inline error
OneSentenceCall_FailureNotCaught(outcome) ==
    /\ pc = "oneSentenceCall"
    /\ Requested("oneSentence", OneSentencePrompt(fullSummary), outcome)
    /\ IF outcome.ok
       THEN /\ oneSentenceSummary' = Trim(outcome.content)
            /\ oneSentenceCache' = [oneSentenceCache EXCEPT ![monthFile] =
                                       EntryFile(now, Trim(outcome.content))]
            /\ pc' = "splice"
            /\ UNCHANGED <<origin, fullSummary, halves, firstCompletion, quarters,
                           quarterSummaries, result, exit>>
       ELSE /\ ReturnError(outcome.message)
            /\ UNCHANGED oneSentenceCache
    /\ UNCHANGED <<clock, runs, docs, cache, monthFile>>
    /\ UNCHANGED <<cacheDir, caller>>

\* mutant of OneSentenceCall: a failed one-sentence request is made once more
OneSentenceCall_RetriesOnce(outcome) ==
    /\ pc = "oneSentenceCall"
    /\ Requested("oneSentence", OneSentencePrompt(fullSummary), outcome)
    /\ IF outcome.ok
       THEN /\ oneSentenceSummary' = Trim(outcome.content)
            /\ oneSentenceCache' = [oneSentenceCache EXCEPT ![monthFile] =
                                       EntryFile(now, Trim(outcome.content))]
            /\ pc' = "splice"
       ELSE /\ oneSentenceSummary' = UnableText
            /\ UNCHANGED oneSentenceCache
            /\ pc' = IF calls["oneSentence"] = 0 THEN "oneSentenceCall" ELSE "splice"
    /\ UNCHANGED <<clock, runs, docs, cache, monthFile, origin, fullSummary, halves,
                   firstCompletion, quarters, quarterSummaries, result, exit>>
    /\ UNCHANGED <<cacheDir, caller>>

\* generateOneSentenceSummary from its request on: the trimmed completion is
\* written to the one-sentence cache and returned; a failure gives the fixed
\* sentence and writes nothing
OneSentenceCall(outcome) ==
    /\ pc = "oneSentenceCall"
    /\ Requested("oneSentence", OneSentencePrompt(fullSummary), outcome)
    /\ IF outcome.ok
       THEN /\ oneSentenceSummary' = Trim(outcome.content)
            /\ oneSentenceCache' = [oneSentenceCache EXCEPT ![monthFile] =
                                       EntryFile(now, Trim(outcome.content))]
       ELSE /\ oneSentenceSummary' = UnableText
            /\ UNCHANGED oneSentenceCache
    /\ pc' = "splice"
    /\ UNCHANGED <<clock, runs, docs, cache, monthFile, origin, fullSummary, halves,
                   firstCompletion, quarters, quarterSummaries, result, exit>>
    /\ UNCHANGED <<cacheDir, caller>>

\* mutant of Splice: the summary is saved with its tl;dr line
Splice_SavesAnnotated ==
    /\ pc = "splice"
    /\ cache' = IF origin = "cached" THEN cache
                ELSE [cache EXCEPT ![monthFile] =
                        saveToCache(WithTldr(fullSummary, MonthName(monthFile),
                                             oneSentenceSummary), now)]
    /\ Return(WithTldr(fullSummary, MonthName(monthFile), oneSentenceSummary), origin)
    /\ UNCHANGED <<clock, runs, docs, oneSentenceCache, monthFile, last, calls>>
    /\ UNCHANGED <<cacheDir, caller>>

\* back in generateMonthSummary: the tl;dr line is spliced in, a fresh summary
\* is saved without it, and the spliced text is returned
Splice ==
    /\ pc = "splice"
    /\ cache' = IF origin = "cached" THEN cache
                ELSE [cache EXCEPT ![monthFile] = saveToCache(fullSummary, now)]
    /\ Return(WithTldr(fullSummary, MonthName(monthFile), oneSentenceSummary), origin)
    /\ UNCHANGED <<clock, runs, docs, oneSentenceCache, monthFile, last, calls>>
    /\ UNCHANGED <<cacheDir, caller>>

(***************************************************************************)
(* The environment: time passes, and the process may be killed.            *)
(***************************************************************************)
\* the clock advances by seven days, or by seven days and a millisecond
TickSteps == {maxAge, maxAge + 1}

Tick(d) ==
    /\ ticks < MaxTicks
    /\ ticks' = ticks + 1
    /\ now' = now + d
    /\ UNCHANGED <<runs, docs, files, pc, monthFile, locals, result, exit, last, calls>>
    /\ UNCHANGED <<cacheDir, caller>>

\* the process is killed while generateMonthSummary runs: nothing is returned
Crash ==
    /\ pc \notin {"idle", "returned"}
    /\ pc' = "idle"
    /\ result' = Null
    /\ exit' = "none"
    /\ last' = NoCall
    /\ calls' = NoCalls
    /\ LocalsCleared
    /\ UNCHANGED <<clock, runs, docs, files, monthFile>>
    /\ UNCHANGED <<cacheDir, caller>>

Next ==
    \/ \E m \in InvokedFiles : Invoke(m)
    \/ CheckCache
    \/ \E o \in Outcomes(WholeContents, ErrorMessages) : SummarizeWhole(o)
    \/ \E o \in Outcomes(FirstHalfContents, ErrorMessages) : SummarizeFirstHalf(o)
    \/ \E o \in Outcomes(SecondHalfContents, ErrorMessages) : SummarizeSecondHalf(o)
    \/ \E o \in Outcomes(QuarterContents(Len(quarterSummaries) + 1), ErrorMessages) : SummarizeQuarter(o)
    \/ \E o \in Outcomes(CombineContents, LateErrorMessages) : CombineFour(o)
    \/ OneSentenceCheck
    \/ \E o \in Outcomes(OneSentenceContents, LateErrorMessages) : OneSentenceCall(o)
    \/ Splice
    \/ \E d \in TickSteps : Tick(d)
    \/ Crash

Spec == Init /\ [][Next]_vars

(***************************************************************************)
(* generateMonthSummary invoked when a cache file is already on disk.      *)
(***************************************************************************)
\* cache files an invocation may find: one that is no JSON, and records
\* written at time 0 whose summary is "", "## May 20" (9 characters),
\* "## May 202" (10 characters) or "## May 2021\n\nSummary A."
StoredFiles ==
    { CorruptFile,
      EntryFile(0, <<>>),
      EntryFile(0, <<"#","#"," ","M","a","y"," ","2","0">>),
      EntryFile(0, <<"#","#"," ","M","a","y"," ","2","0","2">>),
      EntryFile(0, Heading(MonthName("2021-05.md"))
                      \o <<"S","u","m","m","a","r","y"," ","A",".">>) }

InitStored ==
    /\ docs = [m \in MonthFiles |-> ShortDocument]
    /\ \E file \in StoredFiles :
          cache = [m \in MonthFiles |-> IF m \in InvokedFiles THEN file ELSE AbsentFile]
    /\ oneSentenceCache = [m \in MonthFiles |-> AbsentFile]
    /\ cacheDir = TRUE
    /\ Idle
    /\ ExportOff
    /\ CacheOff
    /\ MainOff
    /\ SplitOff

SpecStored == InitStored /\ [][Next]_vars

(***************************************************************************)
(* generateMonthSummary invoked when the cache files on disk are JSON      *)
(* records without a timestamp field (saveToCache did not write them).     *)
(***************************************************************************)
\* summary cache files without timestamp, holding "## May 2021\n\nSummary A."
\* or "## May 20" (9 characters)
ForeignFiles ==
    { EntryFile(NoTimestamp, Heading(MonthName("2021-05.md"))
                                \o <<"S","u","m","m","a","r","y"," ","A",".">>),
      EntryFile(NoTimestamp, <<"#","#"," ","M","a","y"," ","2","0">>) }

\* one-sentence cache files: none, or one without timestamp holding
\* "Old line."
ForeignOneSentenceFiles ==
    { AbsentFile,
      EntryFile(NoTimestamp, <<"O","l","d"," ","l","i","n","e",".">>) }

InitForeign ==
    /\ docs = [m \in MonthFiles |-> ShortDocument]
    /\ \E file \in ForeignFiles :
          cache = [m \in MonthFiles |-> IF m \in InvokedFiles THEN file ELSE AbsentFile]
    /\ \E file \in ForeignOneSentenceFiles :
          oneSentenceCache =
             [m \in MonthFiles |-> IF m \in InvokedFiles THEN file ELSE AbsentFile]
    /\ cacheDir = TRUE
    /\ Idle
    /\ ExportOff
    /\ CacheOff
    /\ MainOff
    /\ SplitOff

SpecForeign == InitForeign /\ [][Next]_vars

(***************************************************************************)
(* splitMonthContent and splitMonthContentIntoFour applied on their own to *)
(* a document of up to MaxLines lines.                                     *)
(***************************************************************************)
\* "0" .. "9"
Digit(i) ==
    CASE i = 0 -> "0" [] i = 1 -> "1" [] i = 2 -> "2" [] i = 3 -> "3"
      [] i = 4 -> "4" [] i = 5 -> "5" [] i = 6 -> "6" [] i = 7 -> "7"
      [] i = 8 -> "8" [] OTHER -> "9"

\* what line i of a document may be: a date heading "## <i>", a message
\* "<i>", or an empty line
LineChoices(i) == { HeadingMarker \o <<Digit(i)>>, <<Digit(i)>>, <<>> }

\* the line arrays of n lines
RECURSIVE DocumentLines(_)
DocumentLines(n) ==
    IF n = 0 THEN { <<>> }
    ELSE { Append(lines, line) : lines \in DocumentLines(n - 1), line \in LineChoices(n) }

InitSplit ==
    /\ \E n \in 1..MaxLines :
          \E lines \in DocumentLines(n) : splitArg = Join(lines, <<"\n">>)
    /\ splitTwoResult = NotSplit
    /\ splitFourResult = <<>>
    /\ docs = [m \in MonthFiles |-> ShortDocument]
    /\ cache = [m \in MonthFiles |-> AbsentFile]
    /\ oneSentenceCache = [m \in MonthFiles |-> AbsentFile]
    /\ cacheDir = FALSE
    /\ Idle
    /\ ExportOff
    /\ CacheOff
    /\ MainOff

\* splitMonthContent(splitArg) is called
ApplySplitTwo ==
    /\ splitArg # Null
    /\ splitTwoResult = NotSplit
    /\ splitTwoResult' = splitMonthContent(splitArg)
    /\ UNCHANGED <<splitArg, splitFourResult>>
    /\ UNCHANGED <<now, ticks, runs, docs, cache, oneSentenceCache, pc, monthFile,
                   locals, result, exit, last, calls, cacheDir, mainVars,
                   exportVars, cacheVars>>

\* splitMonthContentIntoFour(splitArg) is called
ApplySplitFour ==
    /\ splitArg # Null
    /\ splitFourResult = <<>>
    /\ splitFourResult' = splitMonthContentIntoFour(splitArg)
    /\ UNCHANGED <<splitArg, splitTwoResult>>
    /\ UNCHANGED <<now, ticks, runs, docs, cache, oneSentenceCache, pc, monthFile,
                   locals, result, exit, last, calls, cacheDir, mainVars,
                   exportVars, cacheVars>>

NextSplit ==
    \/ ApplySplitTwo
    \/ ApplySplitFour

SpecSplit == InitSplit /\ [][NextSplit]_vars

(***************************************************************************)
(* main: the files of the output directory, the operator's answer, the     *)
(* header of summary.md.                                                   *)
(***************************************************************************)
\* the entries a directory listing may hold
DirEntries ==
    {"2020-12.md", "2021-02.md", "2021-05.md", "2021-06.md", "readme.md",
     "2021-02-15.md", "2021-5.md", "2021-05.txt", "a2021-05.md"}

\* the characters of an entry's name
EntryName(entry) ==
    CASE entry = "2021-05.md" -> <<"2","0","2","1","-","0","5",".","m","d">>
      [] entry = "2021-06.md" -> <<"2","0","2","1","-","0","6",".","m","d">>
      [] entry = "readme.md"  -> <<"r","e","a","d","m","e",".","m","d">>
      [] entry = "2020-12.md" -> <<"2","0","2","0","-","1","2",".","m","d">>
      [] entry = "2021-02.md" -> <<"2","0","2","1","-","0","2",".","m","d">>
      [] entry = "2021-02-15.md" ->
            <<"2","0","2","1","-","0","2","-","1","5",".","m","d">>
      [] entry = "2021-5.md"   -> <<"2","0","2","1","-","5",".","m","d">>
      [] entry = "2021-05.txt" -> <<"2","0","2","1","-","0","5",".","t","x","t">>
      [] entry = "a2021-05.md" -> <<"a","2","0","2","1","-","0","5",".","m","d">>

\* String.prototype.endsWith
EndsWith(s, suffix) ==
    /\ Len(s) >= Len(suffix)
    /\ SubSeq(s, Len(s) - Len(suffix) + 1, Len(s)) = suffix

\* the value of a decimal digit
DigitValue(c) ==
    CASE c = "0" -> 0 [] c = "1" -> 1 [] c = "2" -> 2 [] c = "3" -> 3
      [] c = "4" -> 4 [] c = "5" -> 5 [] c = "6" -> 6 [] c = "7" -> 7
      [] c = "8" -> 8 [] c = "9" -> 9

\* \d
IsDigit(c) == c \in {"0","1","2","3","4","5","6","7","8","9"}

\* /^\d{4}-\d{2}\.md$/.test(name)
MatchesMonthPattern(name) ==
    /\ Len(name) = 10
    /\ \A i \in {1, 2, 3, 4, 6, 7} : IsDigit(name[i])
    /\ name[5] = "-"
    /\ SubSeq(name, 8, 10) = <<".","m","d">>

\* the UTF-16 code unit of a character of an entry's name
CharCode(c) ==
    CASE c = "-" -> 45 [] c = "." -> 46
      [] c = "0" -> 48 [] c = "1" -> 49 [] c = "2" -> 50 [] c = "3" -> 51
      [] c = "4" -> 52 [] c = "5" -> 53 [] c = "6" -> 54 [] c = "7" -> 55
      [] c = "8" -> 56 [] c = "9" -> 57
      [] c = "a" -> 97 [] c = "d" -> 100 [] c = "e" -> 101 [] c = "m" -> 109
      [] c = "r" -> 114 [] c = "t" -> 116 [] c = "x" -> 120
      [] c = " " -> 32 [] c = "D" -> 68 [] c = "M" -> 77
      [] c = "g" -> 103 [] c = "h" -> 104 [] c = "i" -> 105 [] c = "l" -> 108
      [] c = "n" -> 110 [] c = "w" -> 119

\* a < b as Array.prototype.sort compares strings: by code units, a proper
\* prefix first
RECURSIVE SortsBefore(_, _)
SortsBefore(a, b) ==
    IF b = <<>> THEN FALSE
    ELSE IF a = <<>> THEN TRUE
    ELSE IF CharCode(a[1]) # CharCode(b[1]) THEN CharCode(a[1]) < CharCode(b[1])
    ELSE SortsBefore(Tail(a), Tail(b))

\* Array.prototype.sort() of a set of entries with different names
RECURSIVE Sorted(_)
Sorted(entries) ==
    IF entries = {} THEN <<>>
    ELSE LET first == CHOOSE e \in entries :
                         \A f \in entries \ {e} : SortsBefore(EntryName(e), EntryName(f))
         IN  <<first>> \o Sorted(entries \ {first})

\* mutant of getMonthlyFiles: the pattern is not tested
getMonthlyFiles_EndsWithOnly(entries) ==
    Sorted({ file \in entries : EndsWith(EntryName(file), <<".","m","d">>) })

\* getMonthlyFiles
getMonthlyFiles(entries) ==
    Sorted({ file \in entries :
                /\ EndsWith(EntryName(file), <<".","m","d">>)
                /\ MatchesMonthPattern(EntryName(file)) })

\* String.prototype.toLowerCase, for the letters an answer may hold
LowerCase(c) ==
    CASE c = "Y" -> "y" [] c = "E" -> "e" [] c = "S" -> "s" [] c = "N" -> "n"
      [] c = "O" -> "o" [] OTHER -> c

toLowerCase(s) == [i \in 1..Len(s) |-> LowerCase(s[i])]

\* mutant of IsYes: an empty answer counts as yes
IsYes_EmptyIsYes(a) ==
    a = <<>> \/ toLowerCase(a) = <<"y">> \/ toLowerCase(a) = <<"y","e","s">>

\* answer.toLowerCase() === "y" || answer.toLowerCase() === "yes"
IsYes(a) == toLowerCase(a) = <<"y">> \/ toLowerCase(a) = <<"y","e","s">>

\* what the operator may type at the question: "y", "YES", "n", ""
Answers == { <<"y">>, <<"Y","E","S">>, <<"n">>, <<>> }

\* String(n) of a number n >= 0
RECURSIVE DecimalString(_)
DecimalString(n) ==
    IF n < 10 THEN <<Digit(n)>> ELSE DecimalString(n \div 10) \o <<Digit(n % 10)>>

\* n in two and in three decimal places
TwoDigits(n) == <<Digit(n \div 10), Digit(n % 10)>>
ThreeDigits(n) == <<Digit(n \div 100), Digit((n \div 10) % 10), Digit(n % 10)>>

\* new Date(t).toISOString(), for t in January 1970
toISOString(t) ==
    <<"1","9","7","0","-","0","1","-">> \o TwoDigits(t \div 86400000 + 1)
        \o <<"T">> \o TwoDigits((t \div 3600000) % 24)
        \o <<":">> \o TwoDigits((t \div 60000) % 60)
        \o <<":">> \o TwoDigits((t \div 1000) % 60)
        \o <<".">> \o ThreeDigits(t % 1000) \o <<"Z">>

\* the lines of the header down to "Generated on: "
HeaderIntro ==
    <<"#"," ","C","o","m","p","a","n","y"," ","C","o","n","v","e","r","s",
      "a","t","i","o","n"," ","S","u","m","m","a","r","y","\n","\n","T","h",
      "i","s"," ","d","o","c","u","m","e","n","t"," ","c","o","n","t","a",
      "i","n","s"," ","A","I","-","g","e","n","e","r","a","t","e","d"," ",
      "s","u","m","m","a","r","i","e","s"," ","o","f"," ","m","o","n","t",
      "h","l","y"," ","S","l","a","c","k"," ","c","o","n","v","e","r","s",
      "a","t","i","o","n","s",","," ","\n","p","r","o","v","i","d","i","n",
      "g"," ","i","n","s","i","g","h","t","s"," ","i","n","t","o"," ","t",
      "h","e"," ","c","o","m","p","a","n","y","'","s"," ","j","o","u","r",
      "n","e","y",","," ","d","e","c","i","s","i","o","n","s",","," ","a",
      "n","d"," ","k","e","y"," ","d","i","s","c","u","s","s","i","o","n",
      "s",".","\n","\n","G","e","n","e","r","a","t","e","d"," ","o","n",":",
      " ">>

\* "\nTotal months to process: "
ToProcessLabel ==
    <<"\n","T","o","t","a","l"," ","m","o","n","t","h","s"," ","t","o"," ",
      "p","r","o","c","e","s","s",":"," ">>

\* "\nTotal months processed: "
ProcessedLabel ==
    <<"\n","T","o","t","a","l"," ","m","o","n","t","h","s"," ","p","r","o",
      "c","e","s","s","e","d",":"," ">>

\* main's header: the lines joined by "\n", the last one empty
Header(t, count) ==
    HeaderIntro \o toISOString(t) \o ToProcessLabel \o DecimalString(count) \o <<"\n">>

\* main's finalHeader
FinalHeader(t, count) ==
    HeaderIntro \o toISOString(t) \o ProcessedLabel \o DecimalString(count) \o <<"\n">>

\* String.prototype.substring(from) with 0 <= from
Substring(s, from) == SubSeq(s, from + 1, Len(s))

(***************************************************************************)
(* main, one action per stretch of code between two awaits.                *)
(***************************************************************************)
\* the state of generateMonthSummary, which main's own steps leave alone
engineVars == <<pc, monthFile, locals, result, exit, last, calls>>

\* the output directories main may find: none, an empty one, one without a
\* monthly file, one with one monthly file, one with two and another file
OutputDirs ==
    { [exists |-> FALSE, entries |-> {}],
      [exists |-> TRUE,  entries |-> {}],
      [exists |-> TRUE,  entries |-> {"readme.md"}],
      [exists |-> TRUE,  entries |-> {"2021-06.md"}],
      [exists |-> TRUE,  entries |-> {"2021-06.md", "readme.md", "2021-05.md"}] }

\* the summary of May 2021 an earlier run has cached
EarlierSummary ==
    Heading(MonthName("2021-05.md")) \o <<"S","u","m","m","a","r","y"," ","A",".">>

InitMain ==
    /\ outputDir \in OutputDirs
    /\ docs = [m \in MonthFiles |-> IF m = "2021-05.md" THEN LongDocument
                                                     ELSE ShortDocument]
    /\ \/ /\ cacheDir \in BOOLEAN
          /\ cache = [m \in MonthFiles |-> AbsentFile]
       \/ /\ cacheDir = TRUE
          /\ cache = [m \in MonthFiles |->
                         IF m = "2021-05.md" THEN EntryFile(0, EarlierSummary)
                                             ELSE AbsentFile]
    /\ oneSentenceCache = [m \in MonthFiles |-> AbsentFile]
    /\ Idle
    /\ ExportOff
    /\ CacheOff
    /\ mainPc = "start"
    /\ monthlyFiles = <<>>
    /\ cachedCount = 0
    /\ needsApiCallCount = 0
    /\ answer = <<>>
    /\ allSummaries = <<>>
    /\ processed = 0
    /\ apiCallsMade = 0
    /\ wasCached = FALSE
    /\ header = <<>>
    /\ summaryFile = Null
    /\ exitCode = -1
    /\ SplitOff

\* process.exit(code)
Exit(code) ==
    /\ exitCode' = code
    /\ mainPc' = "exited"

\* main down to the question: the output directory is checked, the monthly
\* files are listed and the cache is scanned for each of them
MainScan ==
    /\ mainPc = "start"
    /\ IF ~outputDir.exists
       THEN /\ Exit(1)
            /\ UNCHANGED <<monthlyFiles, cachedCount, needsApiCallCount, cacheDir>>
       ELSE LET listed == getMonthlyFiles(outputDir.entries) IN
            /\ monthlyFiles' = listed
            /\ IF Len(listed) = 0
               THEN /\ Exit(1)
                    /\ UNCHANGED <<cachedCount, needsApiCallCount, cacheDir>>
               ELSE LET hits == { i \in 1..Len(listed) :
                                     getCachedSummary(cache[listed[i]], now) # Null }
                    IN  /\ cachedCount' = Cardinality(hits)
                        /\ needsApiCallCount' = Len(listed) - Cardinality(hits)
                        /\ cacheDir' = TRUE
                        /\ mainPc' = "question"
                        /\ UNCHANGED exitCode
    /\ UNCHANGED <<outputDir, answer, allSummaries, processed, apiCallsMade,
                   wasCached, header, summaryFile>>
    /\ UNCHANGED <<clock, runs, docs, files, engineVars, splitVars, exportVars, cacheVars>>

\* the head of the loop for month number i (from 1), at time t
StartMonth(i, t) ==
    /\ wasCached' = (getCachedSummary(cache[monthlyFiles[i]], t) # Null)
    /\ Enter(monthlyFiles[i])
    /\ mainPc' = "generating"
    /\ UNCHANGED exitCode

\* mutant of Finish: the old header is cut off by the length of the new one
Finish_CutsByFinalHeader(file, t, count) ==
    /\ summaryFile' = FinalHeader(t, count)
                         \o Substring(file, Len(FinalHeader(t, count)))
    /\ mainPc' = "done"
    /\ exitCode' = 0
    /\ UNCHANGED <<wasCached, engineVars>>

\* main after the loop: the header of summary.md is replaced
Finish(file, t, count) ==
    /\ summaryFile' = FinalHeader(t, count) \o Substring(file, Len(header))
    /\ mainPc' = "done"
    /\ exitCode' = 0
    /\ UNCHANGED <<wasCached, engineVars>>

\* the loop goes on after `count` months with summary.md holding `file`
Continue(file, t, count) ==
    IF count < Len(monthlyFiles)
    THEN /\ summaryFile' = file
         /\ StartMonth(count + 1, t)
    ELSE Finish(file, t, count)

\* the operator answers: anything but y or yes ends the process; otherwise
\* summary.md is written with the header and the first month begins
MainAnswer(a) ==
    /\ mainPc = "question"
    /\ answer' = a
    /\ IF ~IsYes(a)
       THEN /\ Exit(0)
            /\ UNCHANGED <<allSummaries, processed, apiCallsMade, wasCached, header,
                           summaryFile, engineVars>>
       ELSE /\ allSummaries' = <<>>
            /\ processed' = 0
            /\ apiCallsMade' = 0
            /\ header' = Header(now, Len(monthlyFiles))
            /\ summaryFile' = header'
            /\ StartMonth(1, now)
    /\ UNCHANGED <<outputDir, monthlyFiles, cachedCount, needsApiCallCount>>
    /\ UNCHANGED <<clock, runs, docs, files, cacheDir, splitVars, exportVars, cacheVars>>

\* mutant of MainAppend: a month that ended with the inline error ends the
\* process
MainAppend_ErrorIsFatal ==
    /\ mainPc = "generating"
    /\ pc = "returned"
    /\ IF exit = "error"
       THEN /\ Exit(1)
            /\ UNCHANGED <<allSummaries, processed, apiCallsMade, summaryFile,
                           wasCached, engineVars>>
       ELSE /\ allSummaries' = Append(allSummaries, result)
            /\ processed' = processed + 1
            /\ apiCallsMade' = IF wasCached THEN apiCallsMade ELSE apiCallsMade + 1
            /\ LET file == summaryFile \o result \o BlankLine IN
               IF ~wasCached
               THEN /\ summaryFile' = file
                    /\ mainPc' = "pause"
                    /\ UNCHANGED <<wasCached, exitCode, engineVars>>
               ELSE Continue(file, now, processed + 1)
    /\ UNCHANGED <<outputDir, monthlyFiles, cachedCount, needsApiCallCount, answer,
                   header>>
    /\ UNCHANGED <<clock, runs, docs, files, cacheDir, splitVars, exportVars, cacheVars>>

\* generateMonthSummary has returned: the summary is pushed and appended to
\* summary.md; after a month that was not cached main waits a second,
\* otherwise the loop goes on
MainAppend ==
    /\ mainPc = "generating"
    /\ pc = "returned"
    /\ allSummaries' = Append(allSummaries, result)
    /\ processed' = processed + 1
    /\ apiCallsMade' = IF wasCached THEN apiCallsMade ELSE apiCallsMade + 1
    /\ LET file == summaryFile \o result \o BlankLine IN
       IF ~wasCached
       THEN /\ summaryFile' = file
            /\ mainPc' = "pause"
            /\ UNCHANGED <<wasCached, exitCode, engineVars>>
       ELSE Continue(file, now, processed + 1)
    /\ UNCHANGED <<outputDir, monthlyFiles, cachedCount, needsApiCallCount, answer,
                   header>>
    /\ UNCHANGED <<clock, runs, docs, files, cacheDir, splitVars, exportVars, cacheVars>>

\* setTimeout(resolve, 1000) fires and the loop goes on
MainPauseOver ==
    /\ mainPc = "pause"
    /\ now' = now + 1000
    /\ Continue(summaryFile, now', processed)
    /\ UNCHANGED <<outputDir, monthlyFiles, cachedCount, needsApiCallCount, answer,
                   allSummaries, processed, apiCallsMade, header>>
    /\ UNCHANGED <<ticks, runs, docs, files, cacheDir, splitVars, exportVars, cacheVars>>

\* what the API may do with a request main's months make: complete, or fail
\* with "over token limit" or "quota"
MainOutcomes(contents) == Outcomes(contents, LateErrorMessages)

\* message.content of the completions in a run of main
MainWholeContents == { <<>>, <<"S","u","m","m","a","r","y"," ","A",".">> }
MainFirstHalfContents == { <<"P","a","r","t"," ","1">> }
MainSecondHalfContents == { <<" ","P","a","r","t"," ","2","\n">> }
MainQuarterContents(i) == { c \in QuarterContents(i) : Trim(c) # <<>> }
MainOneSentenceContents == { <<" ","O","n","e"," ","l","i","n","e","."," ">> }

\* what main prints at the end of a run: the months processed, the cached
\* summaries found by the scan, and the months that were not cached
Report ==
    [processed |-> processed, cached |-> cachedCount, apiCalls |-> apiCallsMade]

NextMain ==
    \/ MainScan
    \/ \E a \in Answers : MainAnswer(a)
    \/ CheckCache
    \/ \E o \in MainOutcomes(MainWholeContents) : SummarizeWhole(o)
    \/ \E o \in MainOutcomes(MainFirstHalfContents) : SummarizeFirstHalf(o)
    \/ \E o \in MainOutcomes(MainSecondHalfContents) : SummarizeSecondHalf(o)
    \/ \E o \in MainOutcomes(MainQuarterContents(Len(quarterSummaries) + 1)) : SummarizeQuarter(o)
    \/ \E o \in MainOutcomes(CombineContents) : CombineFour(o)
    \/ OneSentenceCheck
    \/ \E o \in MainOutcomes(MainOneSentenceContents) : OneSentenceCall(o)
    \/ Splice
    \/ MainAppend
    \/ MainPauseOver
    \/ \E d \in TickSteps : Tick(d)

SpecMain == InitMain /\ [][NextMain]_vars

\* every request is answered or fails, the operator answers, the timer fires
SpecMainFair == SpecMain /\ WF_vars(NextMain)

(***************************************************************************)
(* getMonthlyFiles on its own, over every directory made of DirEntries.    *)
(***************************************************************************)
InitList ==
    /\ outputDir \in { [exists |-> TRUE, entries |-> e] : e \in SUBSET DirEntries }
    /\ mainPc = "off"
    /\ monthlyFiles = <<>>
    /\ cachedCount = 0
    /\ needsApiCallCount = 0
    /\ answer = <<>>
    /\ allSummaries = <<>>
    /\ processed = 0
    /\ apiCallsMade = 0
    /\ wasCached = FALSE
    /\ header = <<>>
    /\ summaryFile = Null
    /\ exitCode = -1
    /\ docs = [m \in MonthFiles |-> ShortDocument]
    /\ cache = [m \in MonthFiles |-> AbsentFile]
    /\ oneSentenceCache = [m \in MonthFiles |-> AbsentFile]
    /\ cacheDir = FALSE
    /\ Idle
    /\ ExportOff
    /\ CacheOff
    /\ SplitOff

\* getMonthlyFiles(outputDir) is called
ApplyGetMonthlyFiles ==
    /\ mainPc = "off"
    /\ monthlyFiles' = getMonthlyFiles(outputDir.entries)
    /\ mainPc' = "listed"
    /\ UNCHANGED <<outputDir, cachedCount, needsApiCallCount, answer, allSummaries,
                   processed, apiCallsMade, wasCached, header, summaryFile, exitCode>>
    /\ UNCHANGED <<clock, runs, docs, files, cacheDir, engineVars, splitVars, exportVars, cacheVars>>

SpecList == InitList /\ [][ApplyGetMonthlyFiles]_vars

(***************************************************************************)
(* index.js: JavaScript values.  A string is the sequence of its           *)
(* characters; undefined is a value of its own, different from the string  *)
(* "undefined"; a Map is the sequence of its entries in insertion order.   *)
(***************************************************************************)
Undefined == <<"undefined">>

\* the string "undefined"
UndefinedString == <<"u","n","d","e","f","i","n","e","d">>

\* ToBoolean of a string or undefined
Truthy(v) == v # Undefined /\ v # <<>>

\* a || b
OrElse(a, b) == IF Truthy(a) THEN a ELSE b

\* `${v}`
TemplateString(v) == IF v = Undefined THEN UndefinedString ELSE v

\* Map.prototype.get
MapGet(map, key) ==
    IF \E i \in 1..Len(map) : map[i].key = key
    THEN map[CHOOSE i \in 1..Len(map) : map[i].key = key].value
    ELSE Undefined

\* Map.prototype.set
MapSet(map, key, value) ==
    IF \E i \in 1..Len(map) : map[i].key = key
    THEN [i \in 1..Len(map) |-> IF map[i].key = key
                                THEN [key |-> key, value |-> value]
                                ELSE map[i]]
    ELSE Append(map, [key |-> key, value |-> value])

\* Array.from(map.keys()).sort(): the keys, strings, by code units
RECURSIVE SortedStrings(_)
SortedStrings(strings) ==
    IF strings = {} THEN <<>>
    ELSE LET first == CHOOSE a \in strings :
                         \A b \in strings \ {a} : SortsBefore(a, b)
         IN  <<first>> \o SortedStrings(strings \ {first})

SortedKeys(map) == SortedStrings({ map[i].key : i \in 1..Len(map) })

\* the concatenation of the strings of a sequence
RECURSIVE Concat(_)
Concat(strings) ==
    IF Len(strings) = 0 THEN <<>> ELSE Head(strings) \o Concat(Tail(strings))

(***************************************************************************)
(* createUserMapping.                                                      *)
(***************************************************************************)
\* user.profile when the user has none: `present` tells an object from
\* undefined
NoProfile == [present |-> FALSE, display_name |-> Undefined, real_name |-> Undefined]

\* mutant of UserMapValue: the real name is preferred to the display name
UserMapValue_RealNameFirst(user) ==
    IF user.profile.present /\ Truthy(user.profile.real_name)
    THEN user.profile.real_name
    ELSE IF user.profile.present /\ Truthy(user.profile.display_name)
    THEN user.profile.display_name
    ELSE IF Truthy(user.name)
    THEN user.name
    ELSE user.id

\* the value createUserMapping sets for a user
UserMapValue(user) ==
    IF user.profile.present /\ Truthy(user.profile.display_name)
    THEN user.profile.display_name
    ELSE IF user.profile.present /\ Truthy(user.profile.real_name)
    THEN user.profile.real_name
    ELSE IF Truthy(user.name)
    THEN user.name
    ELSE user.id

\* users.forEach(...) from the given Map on
RECURSIVE SetEachUser(_, _)
SetEachUser(list, map) ==
    IF Len(list) = 0 THEN map
    ELSE SetEachUser(Tail(list), MapSet(map, Head(list).id, UserMapValue(Head(list))))

createUserMapping(list) == SetEachUser(list, <<>>)

\* the users of users.json: every combination of a missing, an empty and a
\* filled profile.display_name, profile.real_name and name; the n-th user
\* of a list has the n-th id
DisplayNames == { Undefined, <<>>, <<"D","e","e">> }
RealNames == { Undefined, <<>>, <<"D","e","e"," ","R","e","a","l">> }
Names == { Undefined, <<>>, <<"d","e","e">> }
Profiles ==
    { NoProfile }
       \cup { [present |-> TRUE, display_name |-> d, real_name |-> r] :
                 d \in DisplayNames, r \in RealNames }
UserId(n) == <<"U">> \o DecimalString(n)
UsersWithId(i) ==
    { [id |-> i, profile |-> p, name |-> n] : p \in Profiles, n \in Names }

RECURSIVE UserLists(_)
UserLists(n) ==
    IF n = 0 THEN { <<>> }
    ELSE { Append(list, user) : list \in UserLists(n - 1),
                                user \in UsersWithId(UserId(n)) }

\* everything but the functions of index.js is off
RestOff ==
    /\ docs = [m \in MonthFiles |-> ShortDocument]
    /\ cache = [m \in MonthFiles |-> AbsentFile]
    /\ oneSentenceCache = [m \in MonthFiles |-> AbsentFile]
    /\ cacheDir = FALSE
    /\ Idle
    /\ MainOff
    /\ SplitOff
    /\ CacheOff

InitUsers ==
    /\ exportPc = "users"
    /\ users \in UNION { UserLists(n) : n \in 0..MaxUsers }
    /\ userMap = <<>>
    /\ monthData = <<>>
    /\ options = [timestamps |-> TRUE]
    /\ markdown = Null
    /\ RestOff

\* createUserMapping(users) is called
ApplyCreateUserMapping ==
    /\ exportPc = "users"
    /\ userMap' = createUserMapping(users)
    /\ exportPc' = "mapped"
    /\ UNCHANGED <<users, monthData, options, markdown>>
    /\ UNCHANGED <<clock, runs, docs, files, cacheDir, engineVars, mainVars, splitVars,
                   cacheVars>>

SpecUsers == InitUsers /\ [][ApplyCreateUserMapping]_vars

(***************************************************************************)
(* generateMonthMarkdown.                                                  *)
(***************************************************************************)
\* [A-Z0-9]
IsIdChar(c) ==
    c \in {"A","B","C","D","E","F","G","H","I","J","K","L","M","N","O","P","Q",
           "R","S","T","U","V","W","X","Y","Z",
           "0","1","2","3","4","5","6","7","8","9"}

\* the length of the longest run of [A-Z0-9] at the start of text
RECURSIVE IdRun(_)
IdRun(text) ==
    IF Len(text) > 0 /\ IsIdChar(Head(text)) THEN 1 + IdRun(Tail(text)) ELSE 0

\* the length of the match of /<@([A-Z0-9]+)>/ at the start of text, or 0
MentionLength(text) ==
    IF Len(text) >= 4 /\ text[1] = "<" /\ text[2] = "@"
    THEN LET run == IdRun(SubSeq(text, 3, Len(text))) IN
         IF run >= 1 /\ Len(text) >= run + 3 /\ text[run + 3] = ">"
         THEN run + 3 ELSE 0
    ELSE 0

\* text.replace(/<@([A-Z0-9]+)>/g, ...)
RECURSIVE ReplaceMentions(_, _)
ReplaceMentions(text, map) ==
    IF Len(text) = 0 THEN <<>>
    ELSE LET matched == MentionLength(text) IN
         IF matched > 0
         THEN LET userId == SubSeq(text, 3, matched - 1)
                  userName == OrElse(MapGet(map, userId), userId)
              IN  <<"@">> \o TemplateString(userName)
                     \o ReplaceMentions(SubSeq(text, matched + 1, Len(text)), map)
         ELSE <<Head(text)>> \o ReplaceMentions(Tail(text), map)

cleanMessageText(text, map) ==
    IF ~Truthy(text) THEN <<>> ELSE ReplaceMentions(text, map)

\* the day of the month without a leading zero
DayOfMonth(dateStr) ==
    IF dateStr[9] = "0" THEN <<dateStr[10]>> ELSE <<dateStr[9], dateStr[10]>>

\* formatDateForDisplay, for the dates of February in the en-US locale
formatDateForDisplay(dateStr) ==
    <<"F","e","b","r","u","a","r","y"," ">> \o DayOfMonth(dateStr) \o <<",", " ">> \o SubSeq(dateStr, 1, 4)

\* the ts of a message sent on 15 February 2021 at 15:00:00 UTC
Timestamp == <<"1","6","1","3","4","0","1","2","0","0",".","0","0","0","1","0","0">>

\* formatTime, for that ts, in the en-US locale and the UTC time zone
formatTime(ts) == <<"3",":","0","0",":","0","0"," ","P","M">>

\* what validMessages.forEach adds to the markdown for one message
MessageLine(message, map, opts) ==
    LET userName == OrElse(MapGet(map, message.user), message.user) IN
    IF userName = UndefinedString THEN <<>>
    ELSE LET cleanText == cleanMessageText(message.text, map)
             timeStr == IF opts.timestamps # FALSE /\ Truthy(message.ts)
                        THEN formatTime(message.ts) ELSE <<>>
         IN  IF Truthy(timeStr)
             THEN timeStr \o <<" ","@">> \o TemplateString(userName) \o <<":"," ">>
                     \o cleanText \o <<"\n">>
             ELSE <<"@">> \o TemplateString(userName) \o <<":"," ">> \o cleanText \o <<"\n">>

\* msg.type === "message" && msg.text
IsValidMessage(msg) == msg.type = "message" /\ Truthy(msg.text)

\* mutant of ChannelSection: the heading does not wait for a valid message
ChannelSection_HeadingAlways(channelName, messages, map, opts) ==
    LET validMessages == SelectSeq(messages, IsValidMessage) IN
    <<"#","#","#"," ">> \o channelName \o <<"\n","\n">>
       \o Concat([i \in 1..Len(validMessages) |->
                    MessageLine(validMessages[i], map, opts)])
       \o <<"\n">>

\* what sortedChannels.forEach adds to the markdown for one channel
ChannelSection(channelName, messages, map, opts) ==
    LET validMessages == SelectSeq(messages, IsValidMessage) IN
    IF Len(validMessages) > 0
    THEN <<"#","#","#"," ">> \o channelName \o <<"\n","\n">>
            \o Concat([i \in 1..Len(validMessages) |->
                         MessageLine(validMessages[i], map, opts)])
            \o <<"\n">>
    ELSE <<>>

\* what sortedDates.forEach adds to the markdown for one date
DateSection(dateStr, dateData, map, opts) ==
    LET sortedChannels == SortedKeys(dateData) IN
    <<"#","#"," ">> \o formatDateForDisplay(dateStr) \o <<"\n","\n">>
       \o Concat([i \in 1..Len(sortedChannels) |->
                    ChannelSection(sortedChannels[i],
                                   MapGet(dateData, sortedChannels[i]), map, opts)])

generateMonthMarkdown(monthKey, data, map, opts) ==
    LET sortedDates == SortedKeys(data) IN
    <<"#"," ">> \o monthKey \o <<"\n","\n">>
       \o Concat([i \in 1..Len(sortedDates) |->
                    DateSection(sortedDates[i], MapGet(data, sortedDates[i]), map, opts)])

\* the userMap of the month: two known users
KnownUsers ==
    << [key |-> <<"U","1">>, value |-> <<"D","e","e">>],
       [key |-> <<"U","2">>, value |-> <<"J","o">>] >>

\* the messages of the export: from a known user with a mention and a ts,
\* without a user field, from an unknown user, of another type, with an
\* empty text, without a text, and from the user "undefined"
MentionMessage ==
    [user |-> <<"U","1">>, type |-> "message", text |-> <<"H","i"," ","<","@","U","2",">">>, ts |-> Timestamp]
BotMessage ==
    [user |-> Undefined, type |-> "message", text |-> <<"B","e","e","p">>, ts |-> Undefined]
UnknownUserMessage ==
    [user |-> <<"U","X">>, type |-> "message", text |-> <<"Y","o">>, ts |-> Undefined]
FileShare ==
    [user |-> <<"U","1">>, type |-> "file_share", text |-> <<"F","i","l","e">>, ts |-> Undefined]
EmptyTextMessage ==
    [user |-> <<"U","1">>, type |-> "message", text |-> <<>>, ts |-> Timestamp]
NoTextMessage ==
    [user |-> <<"U","2">>, type |-> "message", text |-> Undefined, ts |-> Undefined]
UndefinedStringMessage ==
    [user |-> UndefinedString, type |-> "message", text |-> <<"O","d","d">>, ts |-> Undefined]

Messages ==
    { MentionMessage, BotMessage, UnknownUserMessage, FileShare, EmptyTextMessage,
      NoTextMessage, UndefinedStringMessage }

RECURSIVE MessageLists(_)
MessageLists(n) ==
    IF n = 0 THEN { <<>> }
    ELSE { Append(list, msg) : list \in MessageLists(n - 1), msg \in Messages }

\* the channels of the export and its dates
General == <<"g","e","n","e","r","a","l">>
DirectMessages == <<"D","M"," ","w","i","t","h"," ","D","e","e">>
LaterDate == <<"2","0","2","1","-","0","2","-","1","5">>
EarlierDate == <<"2","0","2","1","-","0","2","-","0","3">>

\* the months scanDataFolder may have collected: on the later date, read
\* first, the channel general with up to MaxMessages messages and perhaps a
\* direct message channel; perhaps an earlier date with one message
MonthDatas ==
    { << [key |-> LaterDate, value |-> <<[key |-> General, value |-> list]>> \o dm] >>
         \o earlier :
         list \in UNION { MessageLists(n) : n \in 0..MaxMessages },
         dm \in { <<>> } \cup { << [key |-> DirectMessages, value |-> <<msg>>] >> :
                                   msg \in {BotMessage, UnknownUserMessage, FileShare} },
         earlier \in { <<>>,
                       << [key |-> EarlierDate,
                           value |-> <<[key |-> General,
                                        value |-> <<UnknownUserMessage>>]>>] >> } }

InitMarkdown ==
    /\ exportPc = "month"
    /\ users = <<>>
    /\ userMap = KnownUsers
    /\ monthData \in MonthDatas
    /\ options \in { [timestamps |-> TRUE], [timestamps |-> FALSE] }
    /\ markdown = Null
    /\ RestOff

\* generateMonthMarkdown("2021-02", monthData, userMap, options) is called
ApplyGenerateMonthMarkdown ==
    /\ exportPc = "month"
    /\ markdown' = generateMonthMarkdown(<<"2","0","2","1","-","0","2">>, monthData, userMap, options)
    /\ exportPc' = "written"
    /\ UNCHANGED <<users, userMap, monthData, options>>
    /\ UNCHANGED <<clock, runs, docs, files, cacheDir, engineVars, mainVars, splitVars,
                   cacheVars>>

SpecMarkdown == InitMarkdown /\ [][ApplyGenerateMonthMarkdown]_vars

(***************************************************************************)
(* The cache file of a month as characters: saveToCache writes             *)
(* JSON.stringify(cacheData, null, 2) with writeFileSync, which truncates  *)
(* the file and then writes the characters; getCachedSummary parses what   *)
(* it reads.                                                               *)
(***************************************************************************)
\* the concatenation of the strings of a sequence, by halves
RECURSIVE Flatten(_)
Flatten(strings) ==
    IF Len(strings) = 0 THEN <<>>
    ELSE IF Len(strings) = 1 THEN strings[1]
    ELSE LET half == Len(strings) \div 2 IN
         Flatten(SubSeq(strings, 1, half))
            \o Flatten(SubSeq(strings, half + 1, Len(strings)))

\* mutant of JsonEscape: a quote is written as it is
JsonEscape_KeepsQuotes(text) ==
    Flatten([i \in 1..Len(text) |->
                CASE text[i] = "\\" -> <<"\\", "\\">>
                  [] text[i] = "\n" -> <<"\\", "n">>
                  [] OTHER -> <<text[i]>>])

\* the characters of a string inside a JSON string literal
JsonEscape(text) ==
    Flatten([i \in 1..Len(text) |->
                CASE text[i] = "\"" -> <<"\\", "\"">>
                  [] text[i] = "\\" -> <<"\\", "\\">>
                  [] text[i] = "\n" -> <<"\\", "n">>
                  [] OTHER -> <<text[i]>>])

\* JSON.stringify(cacheData, null, 2)
JsonStringify(timestamp, file, summary) ==
    <<"{","\n"," "," ","\"","t","i","m","e","s","t","a","m","p","\"",":"," ">> \o DecimalString(timestamp)
       \o <<",","\n"," "," ","\"","m","o","n","t","h","F","i","l","e","\"",":"," ","\"">> \o JsonEscape(file)
       \o <<"\"",",","\n"," "," ","\"","s","u","m","m","a","r","y","\"",":"," ","\"">> \o JsonEscape(summary)
       \o <<"\"",",","\n"," "," ","\"","m","o","d","e","l","\"",":"," ","\"","g","p","t","-","5","-","m","i","n","i","\"","\n","}">>

\* how many backslashes stand right before index i
BackslashesBefore(text, i) ==
    CHOOSE k \in 0..(i - 1) :
       /\ \A j \in (i - k)..(i - 1) : text[j] = "\\"
       /\ (i - k - 1 = 0 \/ text[i - k - 1] # "\\")

\* the character at index i of a string literal is the second of an escape
IsEscaped(text, i) == BackslashesBefore(text, i) % 2 = 1

\* the index of the quote that closes the string literal whose characters
\* begin at index i, or 0 when there is none or the literal is not valid
ClosingQuote(text, i) ==
    LET quotes == { j \in i..Len(text) : text[j] = "\"" /\ ~IsEscaped(text, j) } IN
    IF quotes = {} THEN 0
    ELSE LET close == CHOOSE j \in quotes : \A k \in quotes : j <= k IN
         IF \A j \in i..(close - 1) :
               /\ text[j] # "\n"
               /\ IsEscaped(text, j) => text[j] \in {"\"", "\\", "n"}
         THEN close ELSE 0

\* the string a JSON string literal with these characters stands for
JsonUnescape(body) ==
    Flatten([i \in 1..Len(body) |->
                IF IsEscaped(body, i)
                THEN (CASE body[i] = "n" -> <<"\n">> [] OTHER -> <<body[i]>>)
                ELSE IF body[i] = "\\" THEN <<>>
                ELSE <<body[i]>>])

\* the length of the run of digits at the start of text
DigitRun(text) ==
    CHOOSE k \in 0..Len(text) :
       /\ \A j \in 1..k : IsDigit(text[j])
       /\ (k = Len(text) \/ ~IsDigit(text[k + 1]))

\* the number a run of digits stands for
RECURSIVE NumberOf(_)
NumberOf(digits) ==
    IF Len(digits) = 0 THEN 0
    ELSE 10 * NumberOf(SubSeq(digits, 1, Len(digits) - 1))
            + DigitValue(digits[Len(digits)])

\* text from index i on
From(text, i) == SubSeq(text, i, Len(text))

\* mutant of EndsObject: the end of the object may be missing
EndsObject_AcceptsCut(text, i) ==
    LET rest == From(text, i) IN
    Len(rest) <= Len(<<"\"",",","\n"," "," ","\"","m","o","d","e","l","\"",":"," ","\"","g","p","t","-","5","-","m","i","n","i","\"","\n","}">>) /\ SubSeq(<<"\"",",","\n"," "," ","\"","m","o","d","e","l","\"",":"," ","\"","g","p","t","-","5","-","m","i","n","i","\"","\n","}">>, 1, Len(rest)) = rest

\* the characters from the quote at index i on close the object and end the
\* text
EndsObject(text, i) == From(text, i) = <<"\"",",","\n"," "," ","\"","m","o","d","e","l","\"",":"," ","\"","g","p","t","-","5","-","m","i","n","i","\"","\n","}">>

\* JSON.parse of the characters of a cache file, for the files that
\* saveToCache writes and what is left of them when the write is cut short:
\* the record read, or ok = FALSE when JSON.parse throws
NotParsed == [ok |-> FALSE, timestamp |-> 0, summary |-> <<>>]
JsonParse(text) ==
    IF ~OccursAt(text, <<"{","\n"," "," ","\"","t","i","m","e","s","t","a","m","p","\"",":"," ">>, 1) THEN NotParsed
    ELSE
    LET numberAt == Len(<<"{","\n"," "," ","\"","t","i","m","e","s","t","a","m","p","\"",":"," ">>) + 1
        digits == DigitRun(From(text, numberAt))
        fileAt == numberAt + digits + Len(<<",","\n"," "," ","\"","m","o","n","t","h","F","i","l","e","\"",":"," ","\"">>)
    IN
    IF digits = 0 \/ ~OccursAt(text, <<",","\n"," "," ","\"","m","o","n","t","h","F","i","l","e","\"",":"," ","\"">>, numberAt + digits) THEN NotParsed
    ELSE
    LET fileEnd == ClosingQuote(text, fileAt)
        summaryAt == fileEnd + Len(<<"\"",",","\n"," "," ","\"","s","u","m","m","a","r","y","\"",":"," ","\"">>)
    IN
    IF fileEnd = 0 \/ ~OccursAt(text, <<"\"",",","\n"," "," ","\"","s","u","m","m","a","r","y","\"",":"," ","\"">>, fileEnd) THEN NotParsed
    ELSE
    LET summaryEnd == ClosingQuote(text, summaryAt) IN
    IF summaryEnd = 0 \/ ~EndsObject(text, summaryEnd) THEN NotParsed
    ELSE [ok |-> TRUE,
          timestamp |-> NumberOf(SubSeq(text, numberAt, numberAt + digits - 1)),
          summary |-> JsonUnescape(SubSeq(text, summaryAt, summaryEnd - 1))]

\* the cache file as getCachedSummary sees it
FileOf(content) ==
    IF content = Null THEN AbsentFile
    ELSE LET cacheData == JsonParse(content) IN
         IF cacheData.ok THEN EntryFile(cacheData.timestamp, cacheData.summary)
         ELSE CorruptFile

\* the characters saveToCache writes for a summary of May 2021
WrittenFile(summary, dateNow) ==
    LET cacheData == saveToCache(summary, dateNow) IN
    JsonStringify(cacheData.timestamp, <<"2","0","2","1","-","0","5",".","m","d">>, cacheData.text)

\* the summaries generateMonthSummary saves: the placeholder, a summary
\* with quotes, a backslash and a line break, and two halves put together
PutSummaries ==
    { Placeholder(MonthName("2021-05.md")),
      Heading(MonthName("2021-05.md")) \o <<"S","a","i","d"," ","\"","h","i","\""," ","\\"," ","o","k","\n","B","y","e">>,
      Heading(MonthName("2021-05.md")) \o <<"P","a","r","t"," ","1","P","a","r","t"," ","2">> }

\* what the cache file may hold when saveToCache is called: nothing, an
\* entry written more than seven days ago, an entry with a summary of nine
\* characters, or characters that are not JSON
PriorFiles(dateNow) ==
    { Null,
      WrittenFile(Heading(MonthName("2021-05.md")) \o <<"O","l","d","e","r"," ","t","e","x","t">>, 0),
      WrittenFile(<<"#","#"," ","M","a","y"," ","2","0">>, dateNow),
      <<"{"," ","i","n","v","a","l","i","d"," ","j","s","o","n"," ","}">> }

\* generateMonthSummary calls saveToCache after getCachedSummary returned
\* null
InitCache ==
    /\ cachePc = "ready"
    /\ now \in {maxAge + 1, maxAge + 2}
    /\ cacheFile \in PriorFiles(now)
    /\ getCachedSummary(FileOf(cacheFile), now) = Null
    /\ putSummary \in PutSummaries
    /\ gotSummary = Null
    /\ ticks = 0
    /\ runs = 0
    /\ pc = "idle"
    /\ monthFile = "2021-05.md"
    /\ result = Null
    /\ exit = "none"
    /\ last = NoCall
    /\ calls = NoCalls
    /\ origin = "none"
    /\ fullSummary = <<>>
    /\ halves = NoHalves
    /\ firstCompletion = <<>>
    /\ quarters = <<>>
    /\ quarterSummaries = <<>>
    /\ oneSentenceSummary = <<>>
    /\ docs = [m \in MonthFiles |-> ShortDocument]
    /\ cache = [m \in MonthFiles |-> AbsentFile]
    /\ oneSentenceCache = [m \in MonthFiles |-> AbsentFile]
    /\ cacheDir = TRUE
    /\ MainOff
    /\ SplitOff
    /\ ExportOff

\* what a step of the cache functions leaves alone
cacheFrame ==
    /\ UNCHANGED <<clock, runs, docs, files, cacheDir, engineVars>>
    /\ UNCHANGED <<mainVars, splitVars, exportVars>>

\* saveToCache: writeFileSync opens the file, which empties it
OpenForWrite ==
    /\ cachePc = "ready"
    /\ cacheFile' = <<>>
    /\ cachePc' = "writing"
    /\ UNCHANGED <<putSummary, gotSummary>>
    /\ cacheFrame

\* writeFileSync writes more of the characters, up to index upTo
WriteChunk(upTo) ==
    /\ cachePc = "writing"
    /\ upTo > Len(cacheFile)
    /\ upTo <= Len(WrittenFile(putSummary, now))
    /\ cacheFile' = SubSeq(WrittenFile(putSummary, now), 1, upTo)
    /\ UNCHANGED <<cachePc, putSummary, gotSummary>>
    /\ cacheFrame

\* every character is written: writeFileSync closes the file and returns
CloseFile ==
    /\ cachePc = "writing"
    /\ cacheFile = WrittenFile(putSummary, now)
    /\ cachePc' = "saved"
    /\ UNCHANGED <<cacheFile, putSummary, gotSummary>>
    /\ cacheFrame

\* the process is killed in saveToCache, before or while writeFileSync
\* writes
CrashInWrite ==
    /\ cachePc \in {"ready", "writing"}
    /\ cachePc' = "crashed"
    /\ UNCHANGED <<cacheFile, putSummary, gotSummary>>
    /\ cacheFrame

\* getCachedSummary, right after saveToCache or in the next run of the
\* process
ReadBack ==
    /\ cachePc \in {"saved", "crashed"}
    /\ gotSummary' = getCachedSummary(FileOf(cacheFile), now)
    /\ cachePc' = IF cachePc = "saved" THEN "read" ELSE "read after crash"
    /\ UNCHANGED <<cacheFile, putSummary>>
    /\ cacheFrame

NextCache ==
    \/ OpenForWrite
    \/ \E upTo \in 1..Len(WrittenFile(putSummary, now)) : WriteChunk(upTo)
    \/ CloseFile
    \/ CrashInWrite
    \/ ReadBack

SpecCache == InitCache /\ [][NextCache]_vars

(***************************************************************************)
(* Vocabulary of the properties.                                           *)
(***************************************************************************)
\* the requests that summarize the month, its halves or its quarters, or
\* combine parts
SummarizeKinds == {"whole", "first", "second", "quarter", "combine"}

\* SizeLimitExceeded: the failure's message carries size-limit wording
HasSizeLimitWording(message) ==
    \/ \E i \in 1..Len(message) : OccursAt(message, InputTokensExceed, i)
    \/ \E i \in 1..Len(message) : OccursAt(message, TokenLimit, i)

\* a CacheEntry that is valid for reuse at time t
ValidCacheEntry(file, t) ==
    /\ file.exists
    /\ file.parses
    /\ t - file.timestamp <= maxAge
    /\ Len(file.text) >= MinSummaryLength

\* the stages of one document's processing, in their order
StageRank(p) ==
    CASE p = "start" -> 1
      [] p = "whole" -> 2
      [] p \in {"first", "second"} -> 3
      [] p \in {"quarter", "combine"} -> 4
      [] p \in {"oneSentence", "oneSentenceCall", "splice"} -> 5
      [] p = "returned" -> 6
      [] OTHER -> 0

\* the places of generateMonthSummary, in the order of its text
Position(p) ==
    CASE p = "start" -> 1
      [] p = "whole" -> 2
      [] p = "first" -> 3
      [] p = "second" -> 4
      [] p = "quarter" -> 5
      [] p = "combine" -> 6
      [] p = "oneSentence" -> 7
      [] p = "oneSentenceCall" -> 8
      [] p = "splice" -> 9
      [] p = "returned" -> 10
      [] OTHER -> 0

\* generateMonthSummary is running
Running == pc \notin {"idle", "returned"}

\* this step is a step of the running invocation (not a new invocation, a
\* kill, or the clock)
EngineStep == Running /\ pc' # "idle" /\ <<pc, locals, result, calls>>' # <<pc, locals, result, calls>>

\* this step is the completion or failure of a request of the given kinds
RequestStep(kinds) ==
    /\ Running
    /\ pc' # "idle"
    /\ calls' # calls
    /\ last'.kind \in kinds

\* the return statements of generateMonthSummary
ReturnStatements == {"cached", "placeholder", "whole", "halves", "quarters", "error"}

(***************************************************************************)
(* C1: whatever the outcome of each request (a completion, a trivial       *)
(* completion, a token limit error or any other error, at the whole, half, *)
(* quarter, combine or one-sentence request), generateMonthSummary ends in *)
(* one of its return statements, and what it returns is a non-empty text   *)
(* that begins with the heading line of the month.                         *)
(***************************************************************************)
C1_ReturnsHeadedBlock ==
    pc = "returned" =>
        /\ exit \in ReturnStatements
        /\ result # Null
        /\ Len(result) > 0
        /\ Len(result) >= Len(Heading(MonthName(monthFile)))
        /\ SubSeq(result, 1, Len(Heading(MonthName(monthFile))))
              = Heading(MonthName(monthFile))

\* an error of the fourth quarter's request has been returned inline
C1_Witness ==
    /\ pc = "returned"
    /\ exit = "error"
    /\ calls["quarter"] = 4
    /\ last.kind = "quarter"

(***************************************************************************)
(* C2: the stages of one invocation occur only in the order cache check,   *)
(* whole month, halves, quarters, (one-sentence summary,) return: the      *)
(* halves are entered only from the whole-month request failing with       *)
(* size-limit wording, the quarters only from a half's request failing     *)
(* with size-limit wording, no step goes back to an earlier stage (each    *)
(* step moves forward in the function, or is one of the first three        *)
(* quarter requests, so an invocation that is not killed reaches a return  *)
(* after a bounded number of steps), and an invocation that has returned   *)
(* returned from one of the return statements.                             *)
(***************************************************************************)
C2_StageOrderStep ==
    /\ (pc' = "whole" /\ pc # "whole") => pc = "start"
    /\ (StageRank(pc') = 3 /\ StageRank(pc) # 3) =>
          /\ pc = "whole" /\ pc' = "first"
          /\ last'.kind = "whole"
          /\ ~last'.outcome.ok
          /\ HasSizeLimitWording(last'.outcome.message)
    /\ (StageRank(pc') = 4 /\ StageRank(pc) # 4) =>
          /\ StageRank(pc) = 3 /\ pc' = "quarter"
          /\ last'.kind \in {"first", "second"}
          /\ ~last'.outcome.ok
          /\ HasSizeLimitWording(last'.outcome.message)
    /\ EngineStep =>
          /\ StageRank(pc') >= StageRank(pc)
          /\ \/ Position(pc') > Position(pc)
             \/ /\ pc = "quarter" /\ pc' = "quarter"
                /\ calls'["quarter"] = calls["quarter"] + 1
                /\ calls'["quarter"] < 4
    /\ pc' = "returned" => exit' \in ReturnStatements

\* a running invocation stands at one of the places of the function, and in
\* the loop over the quarters a quarter is left to request
C2_CanStep ==
    /\ Position(pc) \in 1..9
    /\ pc = "quarter" =>
          /\ Len(quarters) = 4
          /\ Len(quarterSummaries) < 4
          /\ calls["quarter"] = Len(quarterSummaries)
    /\ pc = "combine" => Len(quarterSummaries) = 4

C2_StageOrder ==
    /\ [][C2_StageOrderStep]_vars
    /\ [](Running => C2_CanStep)

\* the four-part branch has been entered after the second half failed
C2_Witness ==
    /\ pc = "quarter"
    /\ last.kind = "second"
    /\ calls["whole"] = 1 /\ calls["first"] = 1 /\ calls["second"] = 1

(***************************************************************************)
(* C3: when generateMonthSummary starts on a month whose CacheEntry is     *)
(* valid (at most seven days old, text of at least 10 characters), it      *)
(* takes the cached branch, and the cached branch makes no request that    *)
(* summarizes the month, a half or a quarter, or combines parts; and every *)
(* entry an earlier invocation wrote is valid for seven days, so a re-run  *)
(* within that time after an interrupted run does not summarize the month  *)
(* again.                                                                  *)
(***************************************************************************)
C3_CacheHitStep ==
    /\ (pc = "start" /\ pc' \notin {"start", "idle"}
          /\ ValidCacheEntry(cache[monthFile], now)) =>
          /\ pc' = "oneSentence"
          /\ origin' = "cached"
    /\ (origin = "cached" /\ pc' # "start") =>
          \A k \in SummarizeKinds : calls'[k] = 0

C3_NoResummarize ==
    /\ [][C3_CacheHitStep]_vars
    /\ [](\A m \in MonthFiles :
             (cache[m].exists /\ cache[m].parses /\ now - cache[m].timestamp <= maxAge)
                => ValidCacheEntry(cache[m], now))
    /\ []((pc = "returned" /\ exit = "cached") =>
             \A k \in SummarizeKinds : calls[k] = 0)

\* a second invocation was served from an entry that is exactly seven days old
C3_Witness ==
    /\ pc = "returned"
    /\ exit = "cached"
    /\ runs = 2
    /\ now - cache[monthFile].timestamp = maxAge

(***************************************************************************)
(* More vocabulary.                                                        *)
(***************************************************************************)
\* `text` is `summary` with one tl;dr line put in after its heading: the
\* heading, the tl;dr marker, ..., a blank line, and the body of `summary`
SplicedFrom(text, summary, monthName) ==
    LET h    == Heading(monthName)
        body == SubSeq(summary, Len(h) + 1, Len(summary))
        tail == BlankLine \o body
    IN  /\ Len(summary) >= Len(h)
        /\ SubSeq(summary, 1, Len(h)) = h
        /\ Len(text) >= Len(h) + Len(TldrMarker) + Len(tail)
        /\ SubSeq(text, 1, Len(h) + Len(TldrMarker)) = h \o TldrMarker
        /\ SubSeq(text, Len(text) - Len(tail) + 1, Len(text)) = tail

\* a stored one-sentence summary that generateOneSentenceSummary reuses: at
\* most seven days old and not empty
ReusableOneSentence(file, t) ==
    /\ file.exists
    /\ file.parses
    /\ t - file.timestamp <= maxAge
    /\ Len(file.text) > 0

\* the segments that are not empty, joined by line breaks, are the content
SegmentsOf(content, segments) ==
    Join(SelectSeq(segments, LAMBDA x : x # <<>>), <<"\n">>) = content

\* the inline error block for a message
InlineError(monthName, message) ==
    HeadingMarker \o monthName \o BlankLine \o ErrorPrefix \o message

(***************************************************************************)
(* C4 (as amended): when the whole-month request succeeds, the summary     *)
(* without the tl;dr line is what is cached; a second invocation within    *)
(* the cache lifetime returns that cached summary with only a tl;dr line   *)
(* put in after the heading, leaves the CacheEntry as it is, and makes no  *)
(* request that summarizes or combines; it makes one one-sentence request  *)
(* exactly when the stored one-sentence summary is missing, unparsable,    *)
(* older than seven days or empty.                                         *)
(***************************************************************************)
C4_Step ==
    /\ (pc = "splice" /\ origin = "whole" /\ pc' = "returned") =>
          /\ cache'[monthFile] = EntryFile(now, fullSummary)
          /\ SplicedFrom(result', fullSummary, MonthName(monthFile))
    /\ (pc = "start" /\ pc' \notin {"start", "idle"}
          /\ ValidCacheEntry(cache[monthFile], now)) =>
          /\ origin' = "cached"
          /\ fullSummary' = cache[monthFile].text
    /\ (origin = "cached" /\ pc' # "start") => cache' = cache
    /\ (origin = "cached" /\ pc = "oneSentence" /\ pc' = "oneSentenceCall") =>
          ~ReusableOneSentence(oneSentenceCache[monthFile], now)
    /\ (origin = "cached" /\ pc = "oneSentence" /\ pc' = "splice") =>
          /\ ReusableOneSentence(oneSentenceCache[monthFile], now)
          /\ calls' = calls

C4_SecondRunFromCache ==
    /\ [][C4_Step]_vars
    /\ []((pc = "returned" /\ exit = "cached") =>
             /\ \A k \in SummarizeKinds : calls[k] = 0
             /\ calls["oneSentence"] <= 1
             /\ SplicedFrom(result, cache[monthFile].text, MonthName(monthFile)))

\* the second invocation returned the summary the first one cached from a
\* successful whole-month request, after one more one-sentence request
C4_Witness ==
    /\ pc = "returned"
    /\ exit = "cached"
    /\ runs = 2
    /\ cache[monthFile].text
          = Heading(MonthName(monthFile)) \o <<"S","u","m","m","a","r","y"," ","A",".">>
    /\ calls["oneSentence"] = 1

\* C4 as stated: a run served from the cache makes no request of any kind
C4_Original ==
    (pc = "returned" /\ exit = "cached") =>
        /\ \A k \in CallKinds : calls[k] = 0
        /\ SplicedFrom(result, cache[monthFile].text, MonthName(monthFile))

(***************************************************************************)
(* C5 (the claim, which the code contradicts): a trivial whole-month       *)
(* completion gives the fixed placeholder under the heading, the           *)
(* placeholder is written as the CacheEntry, and a later invocation served *)
(* from that entry makes no request at all.                                *)
(***************************************************************************)
C5_PlaceholderThenNoCalls ==
    /\ (pc = "returned" /\ exit = "placeholder") =>
          /\ result = Heading(MonthName(monthFile)) \o NoActivityText
          /\ cache[monthFile].exists /\ cache[monthFile].parses
          /\ cache[monthFile].text = Heading(MonthName(monthFile)) \o NoActivityText
    /\ (pc = "returned" /\ exit = "cached"
          /\ cache[monthFile].text = Heading(MonthName(monthFile)) \o NoActivityText) =>
          \A k \in CallKinds : calls[k] = 0

(***************************************************************************)
(* C6: when the whole-month request fails with a message that carries no   *)
(* size-limit wording, generateMonthSummary returns at once the heading    *)
(* followed by the inline error text; neither cache file is written, no    *)
(* split is made and no other request has been made by the invocation.     *)
(***************************************************************************)
C6_Step ==
    (RequestStep({"whole"}) /\ ~last'.outcome.ok
        /\ ~HasSizeLimitWording(last'.outcome.message)) =>
        /\ pc' = "returned"
        /\ exit' = "error"
        /\ result' = InlineError(MonthName(monthFile), last'.outcome.message)
        /\ cache' = cache
        /\ oneSentenceCache' = oneSentenceCache
        /\ halves' = NoHalves
        /\ quarters' = <<>>
        /\ calls' = [NoCalls EXCEPT !["whole"] = 1]

C6_ServiceErrorFails ==
    /\ [][C6_Step]_vars
    /\ [][(pc = "returned" /\ pc' = "returned") => calls' = calls]_vars

\* the whole-month request failed with "quota" and the error was returned
C6_Witness ==
    /\ pc = "returned"
    /\ exit = "error"
    /\ last.kind = "whole"
    /\ last.outcome.message = <<"q","u","o","t","a">>
    /\ cache[monthFile] = AbsentFile

(***************************************************************************)
(* C7: when the request of either half fails with size-limit wording, the  *)
(* two-part attempt is given up without a write to either cache file, and  *)
(* the four segments of the four-part branch are a split of the whole      *)
(* month's content, not of one of its halves.                              *)
(***************************************************************************)
C7_Step ==
    (RequestStep({"first", "second"}) /\ ~last'.outcome.ok
        /\ HasSizeLimitWording(last'.outcome.message)) =>
        /\ pc' = "quarter"
        /\ cache' = cache
        /\ oneSentenceCache' = oneSentenceCache
        /\ Len(quarters') = 4
        /\ SegmentsOf(docs[monthFile], quarters')
        /\ quarterSummaries' = <<>>
        /\ result' = Null

C7_EscalatesOnWholeDocument ==
    /\ [][C7_Step]_vars
    /\ [](pc = "quarter" => (Len(quarters) = 4 /\ SegmentsOf(docs[monthFile], quarters)))

\* the second half of the eight-line document exceeded the token limit and
\* the four-part branch has started
C7_Witness ==
    /\ pc = "quarter"
    /\ last.kind = "second"
    /\ docs[monthFile] = LongDocument
    /\ quarters[3] = <<"#","#"," ","3">>

(***************************************************************************)
(* C8 (as amended): when the whole-month request fails with size-limit     *)
(* wording and both half requests succeed, the cached CacheEntry is the    *)
(* heading followed by the first half-summary and then the second, with    *)
(* nothing between them; the output is that text with a tl;dr line put in  *)
(* after the heading; the invocation makes one whole-month request, one    *)
(* request for each half, at most one one-sentence request, and no quarter *)
(* or combine request.                                                     *)
(***************************************************************************)
C8_Step ==
    /\ (pc = "whole" /\ pc' = "first") =>
          /\ last'.kind = "whole"
          /\ ~last'.outcome.ok
          /\ HasSizeLimitWording(last'.outcome.message)
    /\ (RequestStep({"first"}) /\ last'.outcome.ok) =>
          /\ firstCompletion' = last'.outcome.content
          /\ pc' = "second"
          /\ cache' = cache
    /\ (RequestStep({"second"}) /\ last'.outcome.ok) =>
          /\ fullSummary' = HeadingMarker \o MonthName(monthFile) \o BlankLine
                               \o Trim(firstCompletion) \o Trim(last'.outcome.content)
          /\ origin' = "halves"
          /\ pc' = "oneSentence"
          /\ cache' = cache
    /\ (pc = "splice" /\ origin = "halves" /\ pc' = "returned") =>
          /\ exit' = "halves"
          /\ cache'[monthFile] = EntryFile(now, fullSummary)
          /\ SplicedFrom(result', fullSummary, MonthName(monthFile))

C8_TwoHalvesConcatenated ==
    /\ [][C8_Step]_vars
    /\ []((pc = "returned" /\ exit = "halves") =>
             /\ calls["whole"] = 1
             /\ calls["first"] = 1
             /\ calls["second"] = 1
             /\ calls["quarter"] = 0
             /\ calls["combine"] = 0
             /\ calls["oneSentence"] <= 1
             /\ SplicedFrom(result, cache[monthFile].text, MonthName(monthFile)))

\* both halves were summarized and "Part 1Part 2" was returned under the
\* heading and a freshly requested tl;dr line
C8_Witness ==
    /\ pc = "returned"
    /\ exit = "halves"
    /\ calls["oneSentence"] = 1
    /\ cache[monthFile].text
          = Heading(MonthName(monthFile))
               \o <<"P","a","r","t"," ","1","P","a","r","t"," ","2">>
    /\ result # cache[monthFile].text

\* C8 as stated: the output is the cached concatenation and two requests were
\* made for the document
C8_Original ==
    (pc = "returned" /\ exit = "halves") =>
        /\ result = cache[monthFile].text
        /\ calls["whole"] + calls["first"] + calls["second"] + calls["quarter"]
              + calls["combine"] + calls["oneSentence"] = 2

(***************************************************************************)
(* C9 (as amended): in the four-part branch the four quarters are          *)
(* requested one after another, first to fourth; their four summaries are  *)
(* then combined by one combine request, and if that request fails the     *)
(* result is the four summaries in order joined by blank lines; in both    *)
(* cases the combined result under the heading is cached as the            *)
(* CacheEntry and the invocation returns normally.                         *)
(***************************************************************************)
C9_Step ==
    /\ RequestStep({"quarter"}) =>
          LET i == calls'["quarter"] IN
          /\ i = Len(quarterSummaries) + 1
          /\ i <= 4
          /\ last'.input = QuarterPrompt(MonthName(monthFile), i, quarters[i])
          /\ last'.outcome.ok =>
                /\ quarterSummaries'
                      = Append(quarterSummaries, Trim(last'.outcome.content))
                /\ pc' = IF i < 4 THEN "quarter" ELSE "combine"
    /\ RequestStep({"combine"}) =>
          /\ calls["quarter"] = 4
          /\ calls'["combine"] = 1
          /\ last'.input = CombinePrompt(quarterSummaries, MonthName(monthFile))
          /\ fullSummary'
                = HeadingMarker \o MonthName(monthFile) \o BlankLine
                     \o (IF last'.outcome.ok
                         THEN Trim(last'.outcome.content)
                         ELSE quarterSummaries[1] \o BlankLine
                                 \o quarterSummaries[2] \o BlankLine
                                 \o quarterSummaries[3] \o BlankLine
                                 \o quarterSummaries[4])
          /\ origin' = "quarters"
          /\ pc' = "oneSentence"
    /\ (pc = "splice" /\ origin = "quarters" /\ pc' = "returned") =>
          /\ exit' = "quarters"
          /\ cache'[monthFile] = EntryFile(now, fullSummary)
          /\ SplicedFrom(result', fullSummary, MonthName(monthFile))

C10_Step ==
    /\ (RequestStep({"quarter"}) /\ ~last'.outcome.ok) =>
          /\ pc' = "returned"
          /\ exit' = "error"
          /\ result' = InlineError(MonthName(monthFile), last'.outcome.message)
          /\ cache' = cache
          /\ oneSentenceCache' = oneSentenceCache
          /\ quarters' = <<>>
          /\ calls'["combine"] = 0
          /\ calls'["oneSentence"] = 0
    /\ (pc = "quarter" /\ pc' = "quarter") => quarters' = quarters
    /\ (pc = "returned" /\ exit = "error" /\ pc' = "returned") => calls' = calls

C10_FourWayIsHardBound ==
    /\ [][C10_Step]_vars
    /\ [](calls["quarter"] <= 4 /\ Len(quarters) \in {0, 4})

\* a quarter exceeded the token limit and the error was returned inline
C10_Witness ==
    /\ pc = "returned"
    /\ exit = "error"
    /\ last.kind = "quarter"
    /\ HasSizeLimitWording(last.outcome.message)
    /\ calls["quarter"] = 3
    /\ cache[monthFile] = AbsentFile

(***************************************************************************)
(* C11: getCachedSummary returns the stored summary if and only if the     *)
(* entry exists, parses, is at most seven days old and holds a summary of  *)
(* at least 10 characters; an entry older than seven days is absent        *)
(* whatever it holds, and one aged exactly seven days is still valid.      *)
(* Checked on every cache file and time generateMonthSummary meets.        *)
(***************************************************************************)
\* seven days, in milliseconds
SevenDays == 7 * 24 * 3600 * 1000

\* what the claim says is returned for `file` at time t
C11_Expected(file, t) ==
    IF /\ file.exists
       /\ file.parses
       /\ t - file.timestamp <= SevenDays
       /\ Len(file.text) >= 10
    THEN file.text
    ELSE Null

C11_Step ==
    (pc = "start" /\ pc' \notin {"start", "idle"}) =>
        IF C11_Expected(cache[monthFile], now) = Null
        THEN pc' = "whole" /\ origin' = "none"
        ELSE /\ pc' = "oneSentence"
             /\ origin' = "cached"
             /\ fullSummary' = cache[monthFile].text

C11_CacheValidity ==
    /\ [](\A m \in MonthFiles :
             /\ getCachedSummary(cache[m], now) = C11_Expected(cache[m], now)
             /\ (now - cache[m].timestamp > SevenDays)
                    => getCachedSummary(cache[m], now) = Null
             /\ (cache[m].exists /\ cache[m].parses
                    /\ now - cache[m].timestamp = SevenDays /\ Len(cache[m].text) >= 10)
                    => getCachedSummary(cache[m], now) = cache[m].text)
    /\ [][C11_Step]_vars

\* a stored summary of exactly 10 characters, aged exactly seven days, was
\* taken from the cache
C11_Witness ==
    /\ pc = "oneSentence"
    /\ origin = "cached"
    /\ now - cache[monthFile].timestamp = maxAge
    /\ Len(cache[monthFile].text) = 10
    /\ fullSummary = cache[monthFile].text

(***************************************************************************)
(* C12: a cache file that cannot be parsed raises no error:                *)
(* getCachedSummary reports null, the whole-month request is made as if no *)
(* cache file existed, and on success a fresh entry replaces the corrupted *)
(* file.                                                                   *)
(***************************************************************************)
\* the cache file of the month is on disk and is no JSON
C12_Corrupted == cache[monthFile].exists /\ ~cache[monthFile].parses

C12_Step ==
    /\ (pc = "start" /\ C12_Corrupted /\ pc' \notin {"start", "idle"}) =>
          /\ pc' = "whole"
          /\ result' = Null
          /\ exit' = "none"
          /\ cache' = cache
          /\ calls' = NoCalls
    /\ (pc = "whole" /\ C12_Corrupted /\ pc' \notin {"whole", "idle"}) =>
          /\ last'.kind = "whole"
          /\ last'.input = <<"#"," ">> \o MonthName(monthFile) \o BlankLine
                              \o docs[monthFile]
          /\ calls' = [NoCalls EXCEPT !["whole"] = 1]
    /\ (C12_Corrupted /\ pc' = "returned"
          /\ exit' \in {"placeholder", "whole", "halves", "quarters"}) =>
          /\ cache'[monthFile].exists
          /\ cache'[monthFile].parses
          /\ cache'[monthFile].timestamp = now
          /\ Len(cache'[monthFile].text) >= 10

C12_CorruptedCacheIsAbsent ==
    /\ [][C12_Step]_vars
    /\ [](\A m \in MonthFiles :
             (cache[m].exists /\ ~cache[m].parses)
                => getCachedSummary(cache[m], now) = getCachedSummary(AbsentFile, now))

\* the whole-month request succeeded while the corrupted file was still on
\* disk
C12_Witness ==
    /\ pc = "oneSentence"
    /\ origin = "whole"
    /\ C12_Corrupted
    /\ calls["whole"] = 1

(***************************************************************************)
(* Lines and texts, as the properties of the splitters speak of them.      *)
(***************************************************************************)
\* the text whose lines are `lines`; no line gives the empty text
RECURSIVE TextOfLines(_)
TextOfLines(lines) ==
    IF Len(lines) = 0 THEN <<>>
    ELSE IF Len(lines) = 1 THEN lines[1]
    ELSE TextOfLines(SubSeq(lines, 1, Len(lines) - 1)) \o <<"\n">> \o lines[Len(lines)]

\* the lines of a text: what stands between its line breaks
RECURSIVE LinesOf(_)
LinesOf(text) ==
    IF \A i \in 1..Len(text) : text[i] # "\n" THEN <<text>>
    ELSE LET i == CHOOSE j \in 1..Len(text) :
                     /\ text[j] = "\n"
                     /\ \A k \in (j + 1)..Len(text) : text[k] # "\n"
         IN  Append(LinesOf(SubSeq(text, 1, i - 1)), SubSeq(text, i + 1, Len(text)))

(***************************************************************************)
(* C13: for every document, whatever its number of lines and wherever its  *)
(* boundary lines are, splitMonthContent yields two segments that          *)
(* partition the document's lines without overlap or gap: the first        *)
(* segment is the text of the first k lines and the second the text of the *)
(* remaining lines, for one k; for a document of two lines or more, the    *)
(* lines of the first segment followed by the lines of the second are      *)
(* exactly the document's lines.                                           *)
(***************************************************************************)
C13_TwoSegmentsPartition ==
    (splitTwoResult # NotSplit) =>
        LET lines == LinesOf(splitArg)
            n     == Len(lines)
        IN  /\ \E k \in 0..n :
                  /\ splitTwoResult.firstHalf = TextOfLines(SubSeq(lines, 1, k))
                  /\ splitTwoResult.secondHalf = TextOfLines(SubSeq(lines, k + 1, n))
            /\ (n >= 2) =>
                  LinesOf(splitTwoResult.firstHalf) \o LinesOf(splitTwoResult.secondHalf)
                     = lines

\* a document of five lines was cut at a date heading in its fifth line
C13_Witness ==
    /\ splitTwoResult # NotSplit
    /\ Len(LinesOf(splitArg)) = 5
    /\ Len(LinesOf(splitTwoResult.firstHalf)) = 4
    /\ splitTwoResult.secondHalf = <<"#","#"," ","5">>

(***************************************************************************)
(* C14: for every document, also one of fewer than four lines,             *)
(* splitMonthContentIntoFour yields four ordered segments that partition   *)
(* the document's lines (the texts of four consecutive ranges of lines     *)
(* that cover the document; for a document of four lines or more the       *)
(* segments' lines in order are exactly the document's lines), and its     *)
(* three split points never decrease.                                      *)
(***************************************************************************)
C14_FourSegmentsPartition ==
    (splitFourResult # <<>>) =>
        LET lines == LinesOf(splitArg)
            n     == Len(lines)
            sp    == splitPoints(lines)
        IN  /\ Len(splitFourResult) = 4
            /\ 0 <= sp[1] /\ sp[1] <= sp[2] /\ sp[2] <= sp[3] /\ sp[3] <= n
            /\ \E k1 \in 0..n : \E k2 \in k1..n : \E k3 \in k2..n :
                  /\ splitFourResult[1] = TextOfLines(SubSeq(lines, 1, k1))
                  /\ splitFourResult[2] = TextOfLines(SubSeq(lines, k1 + 1, k2))
                  /\ splitFourResult[3] = TextOfLines(SubSeq(lines, k2 + 1, k3))
                  /\ splitFourResult[4] = TextOfLines(SubSeq(lines, k3 + 1, n))
                  /\ <<k1, k2, k3>> = <<sp[1], sp[2], sp[3]>>
            /\ (n >= 4) =>
                  LinesOf(splitFourResult[1]) \o LinesOf(splitFourResult[2])
                     \o LinesOf(splitFourResult[3]) \o LinesOf(splitFourResult[4])
                     = lines

\* a document of three lines was split: the first three segments are empty
\* and the fourth is the document
C14_Witness ==
    /\ splitFourResult # <<>>
    /\ Len(LinesOf(splitArg)) = 3
    /\ splitFourResult = << <<>>, <<>>, <<>>, splitArg >>

(***************************************************************************)
(* C15 (the claim, which the code contradicts): whenever a fresh           *)
(* CacheEntry is produced on the whole, two-part or four-part path, the    *)
(* one-sentence summary used for the month was requested in the same       *)
(* invocation for the new summary; one stored before is never reused.      *)
(***************************************************************************)
C15_DigestRegeneratedWithParent ==
    (pc = "splice" /\ origin \in {"whole", "halves", "quarters"}) =>
        /\ calls["oneSentence"] = 1
        /\ last.kind = "oneSentence"
        /\ Len(last.input) >= Len(fullSummary)
        /\ SubSeq(last.input, Len(last.input) - Len(fullSummary) + 1, Len(last.input))
              = fullSummary

(***************************************************************************)
(* C16: if the one-sentence request fails, the month does not fail: the    *)
(* result is the full summary with the fixed sentence "Unable to generate  *)
(* summary." in the place of the one-sentence summary, nothing is written  *)
(* to the one-sentence cache, and the CacheEntry of the full summary is    *)
(* still written (on a cache hit it is kept).                              *)
(***************************************************************************)
\* the latest request was the one-sentence request and it failed
C16_DigestFailed == last.kind = "oneSentence" /\ ~last.outcome.ok

C16_Step ==
    /\ (RequestStep({"oneSentence"}) /\ ~last'.outcome.ok) =>
          /\ pc' = "splice"
          /\ exit' = "none"
          /\ fullSummary' = fullSummary
          /\ oneSentenceCache' = oneSentenceCache
          /\ cache' = cache
    /\ (pc = "splice" /\ C16_DigestFailed /\ pc' = "returned") =>
          /\ exit' \in {"cached", "whole", "halves", "quarters"}
          /\ result' = HeadingMarker \o MonthName(monthFile) \o BlankLine
                          \o <<"*","*","t","l",";","d","r",":","*","*"," ">>
                          \o <<"U","n","a","b","l","e"," ","t","o"," ","g","e","n",
                               "e","r","a","t","e"," ","s","u","m","m","a","r","y",".">>
                          \o BlankLine
                          \o SubSeq(fullSummary,
                                    Len(HeadingMarker \o MonthName(monthFile) \o BlankLine) + 1,
                                    Len(fullSummary))
          /\ IF origin = "cached"
             THEN cache' = cache /\ cache[monthFile].text = fullSummary
             ELSE cache'[monthFile] = EntryFile(now, fullSummary)

C16_DigestFailureDegrades ==
    /\ [][C16_Step]_vars
    /\ []((pc = "returned" /\ C16_DigestFailed) =>
             /\ exit # "error"
             /\ cache[monthFile].exists
             /\ cache[monthFile].parses)

\* the two halves were summarized, the one-sentence request failed, and the
\* summary was returned with the fixed sentence and cached
C16_Witness ==
    /\ pc = "returned"
    /\ exit = "halves"
    /\ C16_DigestFailed
    /\ cache[monthFile].text
          = Heading(MonthName(monthFile))
               \o <<"P","a","r","t"," ","1","P","a","r","t"," ","2">>
    /\ oneSentenceCache[monthFile] = AbsentFile

(***************************************************************************)
(* Vocabulary of the properties of main.                                   *)
(***************************************************************************)
\* the blocks of the given summaries, as they stand in summary.md
RECURSIVE BlocksOf(_)
BlocksOf(texts) ==
    IF Len(texts) = 0 THEN <<>>
    ELSE texts[1] \o <<"\n","\n">> \o BlocksOf(Tail(texts))

\* the key of a monthly file YYYY-MM.md: the months since year 0
MonthKey(name) ==
    12 * (1000 * DigitValue(name[1]) + 100 * DigitValue(name[2])
             + 10 * DigitValue(name[3]) + DigitValue(name[4]))
       + 10 * DigitValue(name[6]) + DigitValue(name[7])

\* the entries of the output directory that are monthly files
MonthlyEntries == outputDir.entries \cap MonthFiles

\* text begins with / ends with part
BeginsWith(text, part) ==
    Len(text) >= Len(part) /\ SubSeq(text, 1, Len(part)) = part
FinishesWith(text, part) ==
    Len(text) >= Len(part) /\ SubSeq(text, Len(text) - Len(part) + 1, Len(text)) = part

\* "# Company Conversation Summary\n"
TitleLine ==
    <<"#"," ","C","o","m","p","a","n","y"," ","C","o","n","v","e","r","s","a",
      "t","i","o","n"," ","S","u","m","m","a","r","y","\n">>

\* the operator typed y or yes, in upper or lower case
Affirmative(a) ==
    \E word \in { <<"y">>, <<"y","e","s">> } :
       /\ Len(a) = Len(word)
       /\ \A i \in 1..Len(word) :
             \/ a[i] = word[i]
             \/ <<a[i], word[i]>> \in { <<"Y","y">>, <<"E","e">>, <<"S","s">> }

(***************************************************************************)
(* C17: the months are processed in strictly ascending order of their      *)
(* keys; when the processing of month k+1 begins, summary.md holds the     *)
(* header followed by exactly the blocks of months 1..k in that order;     *)
(* when the run completes, summary.md is the header followed by the block  *)
(* of every month in chronological order, none lost or duplicated by the   *)
(* final rewrite of the header.                                            *)
(***************************************************************************)
C17_Step ==
    (mainPc' = "generating" /\ pc' = "start" /\ pc # "start") =>
        LET k == Len(allSummaries') IN
        /\ k < Len(monthlyFiles)
        /\ monthFile' = monthlyFiles[k + 1]
        /\ summaryFile' = header' \o BlocksOf(allSummaries')
        /\ BeginsWith(header', TitleLine)
        /\ \A i \in 1..k :
              BeginsWith(allSummaries'[i],
                         <<"#","#"," ">> \o MonthName(monthlyFiles[i]) \o <<"\n","\n">>)

C17_OrderedDurableOutput ==
    /\ [][C17_Step]_vars
    /\ [](\A i \in 1..Len(monthlyFiles) : \A j \in 1..Len(monthlyFiles) :
             (i < j) => MonthKey(EntryName(monthlyFiles[i]))
                           < MonthKey(EntryName(monthlyFiles[j])))
    /\ [](mainPc \in {"generating", "pause"} =>
             /\ BeginsWith(summaryFile, header \o BlocksOf(allSummaries))
             /\ Len(summaryFile) = Len(header \o BlocksOf(allSummaries)))
    /\ [](mainPc = "done" =>
             /\ Len(allSummaries) = Cardinality(MonthlyEntries)
             /\ \A i \in 1..Len(allSummaries) :
                   /\ monthlyFiles[i] \in MonthlyEntries
                   /\ BeginsWith(allSummaries[i],
                                 <<"#","#"," ">> \o MonthName(monthlyFiles[i])
                                    \o <<"\n","\n">>)
             /\ FinishesWith(summaryFile, BlocksOf(allSummaries))
             /\ LET top == SubSeq(summaryFile, 1,
                                  Len(summaryFile) - Len(BlocksOf(allSummaries)))
                IN  /\ BeginsWith(top, TitleLine)
                    /\ FinishesWith(top, <<":"," ">> \o DecimalString(Len(allSummaries))
                                            \o <<"\n">>)
                    /\ \A i \in 1..Len(top) : ~OccursAt(top, <<"#","#"," ">>, i))

\* a run over two months has completed, a second later than it began
C17_Witness ==
    /\ mainPc = "done"
    /\ Len(allSummaries) = 2
    /\ monthlyFiles = <<"2021-05.md", "2021-06.md">>
    /\ now > 0

(***************************************************************************)
(* C18: a month that fails never ends main's loop: the inline error is     *)
(* appended as that month's block and the loop goes on; every month listed *)
(* is eventually processed and has exactly one block in summary.md, and    *)
(* the blocks of the other months are what generateMonthSummary returned   *)
(* for them.                                                               *)
(***************************************************************************)
C18_Step ==
    (mainPc = "generating" /\ pc = "returned" /\ ticks' = ticks) =>
        /\ mainPc' # "exited"
        /\ exitCode' # 1
        /\ allSummaries' = Append(allSummaries, result)
        /\ \/ summaryFile' = summaryFile \o result \o <<"\n","\n">>
           \/ mainPc' = "done"
        /\ (exit # "error") => \A i \in 1..Len(result) : ~OccursAt(result, ErrorPrefix, i)

C19_Step ==
    RequestStep(CallKinds) =>
        /\ outputDir.exists
        /\ MonthlyEntries # {}
        /\ Affirmative(answer)

C19_NoCallWithoutConfirmation ==
    /\ [][C19_Step]_vars
    /\ []((~outputDir.exists \/ MonthlyEntries = {}) =>
             /\ last = NoCall
             /\ calls = NoCalls
             /\ pc = "idle"
             /\ mainPc \in {"start", "exited"}
             /\ (mainPc = "exited") => exitCode = 1)
    /\ []((mainPc = "exited" /\ exitCode = 0) => (~Affirmative(answer) /\ last = NoCall))

\* the operator typed YES and the whole-month request was made
C19_Witness ==
    /\ answer = <<"Y","E","S">>
    /\ last.kind = "whole"
    /\ calls["whole"] = 1
    /\ mainPc = "generating"

(***************************************************************************)
(* C20 (the claim, which the code contradicts): if the operator declines,  *)
(* the run exits with code 0 and has written nothing: the cache area, its  *)
(* existence included, and summary.md are as they were when the run        *)
(* started.  Stated over the steps of such a run: every step up to and     *)
(* including an answer that declines leaves them unchanged.                *)
(***************************************************************************)
C20_DeclineWritesNothing ==
    [][(mainPc \in {"start", "question"} /\ ~(mainPc' = "generating")) =>
          /\ UNCHANGED <<cacheDir, cache, oneSentenceCache, summaryFile>>
          /\ (mainPc = "question") => (mainPc' = "exited" /\ exitCode' = 0)]_vars

(***************************************************************************)
(* C21 (the claim, which the code contradicts): main pauses after a month  *)
(* if and only if the processing of that month made at least one request   *)
(* to the API, a one-sentence request included.                            *)
(***************************************************************************)
C21_PauseIffFreshCall ==
    [][(mainPc = "generating" /\ pc = "returned") =>
          ((mainPc' = "pause") <=> (calls # NoCalls))]_vars

\* the requests made to the API by the invocation of generateMonthSummary
TotalCalls ==
    calls["whole"] + calls["first"] + calls["second"] + calls["quarter"]
       + calls["combine"] + calls["oneSentence"]

\* the months of the run whose block is the inline error
FailedMonths ==
    { i \in 1..Len(allSummaries) :
         \E m \in MonthFiles :
            BeginsWith(allSummaries[i], Heading(MonthName(m)) \o ErrorPrefix) }

(***************************************************************************)
(* C22 (the claim, which the code contradicts): at the end of a run main   *)
(* reports the months served from the cache, the requests made to the API  *)
(* and the months that failed, and each count is the number that occurred: *)
(* the count of requests grows with every month by the requests that month *)
(* made, the cached count grows by one exactly for a cache hit, and the    *)
(* report carries the number of failed months.                             *)
(***************************************************************************)
C22_ReportedCountsAreActual ==
    /\ [][(mainPc = "generating" /\ pc = "returned") =>
             apiCallsMade' = apiCallsMade + TotalCalls]_vars
    /\ [](mainPc = "done" =>
             /\ "failed" \in DOMAIN Report
             /\ Report.failed = Cardinality(FailedMonths))

\* the files of a listing, in order, as a set
ListedFiles == { monthlyFiles[i] : i \in 1..Len(monthlyFiles) }

(***************************************************************************)
(* C23: getMonthlyFiles returns exactly the entries of the directory whose *)
(* whole name is YYYY-MM.md (four digits, a hyphen, two digits, .md), each *)
(* once, leaving out every other entry such as readme.md or 2021-02-15.md, *)
(* and returns them in ascending order, which is chronological order.      *)
(***************************************************************************)
C23_MonthlyFilesFilteredAndSorted ==
    (mainPc = "listed") =>
       /\ ListedFiles = outputDir.entries
                           \cap {"2020-12.md", "2021-02.md", "2021-05.md", "2021-06.md"}
       /\ Len(monthlyFiles) = Cardinality(ListedFiles)
       /\ \A i \in 1..Len(monthlyFiles) : \A j \in 1..Len(monthlyFiles) :
             (i < j) => MonthKey(EntryName(monthlyFiles[i]))
                           < MonthKey(EntryName(monthlyFiles[j]))

\* a directory with months of two years and the files of the test suite
C23_Witness ==
    /\ mainPc = "listed"
    /\ {"readme.md", "2021-02-15.md", "2021-05.txt"} \subseteq outputDir.entries
    /\ monthlyFiles = <<"2020-12.md", "2021-02.md", "2021-06.md">>

(***************************************************************************)
(* Vocabulary of the properties of index.js.                               *)
(***************************************************************************)
\* the messages of a month, whatever their date and channel
MessagesOf(data) ==
    UNION { UNION { { data[d].value[c].value[k] :
                         k \in 1..Len(data[d].value[c].value) } :
                    c \in 1..Len(data[d].value) } :
            d \in 1..Len(data) }

\* the dates of a month on which the channel has a message of type
\* "message" with a text
DatesWithValid(data, channelName) ==
    { d \in 1..Len(data) :
         \E c \in 1..Len(data[d].value) :
            /\ data[d].value[c].key = channelName
            /\ \E k \in 1..Len(data[d].value[c].value) :
                  LET msg == data[d].value[c].value[k] IN
                  msg.type = "message" /\ msg.text # Undefined /\ msg.text # <<>> }

\* how often part occurs in text
Occurrences(text, part) ==
    Cardinality({ i \in 1..Len(text) : OccursAt(text, part, i) })

\* the name a message is shown under: the user's name, or the id itself
ShownName(msg) ==
    IF msg.user = <<"U","1">> THEN <<"D","e","e">>
    ELSE IF msg.user = <<"U","2">> THEN <<"J","o">>
    ELSE msg.user

\* the text a message is shown with
ShownText(msg) ==
    IF msg.text = <<"H","i"," ","<","@","U","2",">">> THEN <<"H","i"," ","@","J","o">>
    ELSE IF msg.text = Undefined THEN <<>>
    ELSE msg.text

(***************************************************************************)
(* C24 (the claim, which the code contradicts): generateMonthMarkdown      *)
(* never emits a message that has no user field: neither its text nor a    *)
(* line for the user undefined is in the month's markdown, while the       *)
(* messages of known users and of unknown user ids are kept.               *)
(***************************************************************************)
C24_MessagesWithoutUserExcluded ==
    (exportPc = "written") =>
       /\ \A msg \in MessagesOf(monthData) :
             (msg.user = Undefined) => ~Includes(markdown, msg.text)
       /\ ~Includes(markdown, <<"@","u","n","d","e","f","i","n","e","d",":"," ">>)
       /\ \A msg \in MessagesOf(monthData) :
             (msg.type = "message" /\ msg.text # Undefined /\ msg.text # <<>>
                 /\ msg.user \in { <<"U","1">>, <<"U","X">> })
                => Includes(markdown, <<"@">> \o ShownName(msg) \o <<":"," ">>
                                         \o ShownText(msg) \o <<"\n">>)

WithId(list, id) == { i \in 1..Len(list) : list[i].id = id }

\* the first of the candidates that is a non-empty string
FirstAvailable(candidates) ==
    candidates[CHOOSE i \in 1..Len(candidates) :
                  /\ candidates[i] # Undefined /\ candidates[i] # <<>>
                  /\ \A j \in 1..(i - 1) :
                        candidates[j] = Undefined \/ candidates[j] = <<>>]

(***************************************************************************)
(* C26: createUserMapping maps every user id to the first available of     *)
(* profile.display_name, profile.real_name, name and the id itself, in     *)
(* that order, whichever of the fields are present, empty or missing; the  *)
(* Map has one entry per user.                                             *)
(***************************************************************************)
C26_NamePrecedence ==
    (exportPc = "mapped") =>
       /\ { userMap[i].key : i \in 1..Len(userMap) } = { users[i].id : i \in 1..Len(users) }
       /\ Len(userMap) = Cardinality({ users[i].id : i \in 1..Len(users) })
       /\ \A id \in { users[i].id : i \in 1..Len(users) } :
             LET user == users[CHOOSE i \in WithId(users, id) :
                                  \A j \in WithId(users, id) : j <= i]
             IN  MapGet(userMap, id) =
                    FirstAvailable(<< IF user.profile.present
                                      THEN user.profile.display_name ELSE Undefined,
                                      IF user.profile.present
                                      THEN user.profile.real_name ELSE Undefined,
                                      user.name,
                                      user.id >>)

\* one user with an empty display name and a real name, one with nothing
\* but the id
C26_Witness ==
    /\ exportPc = "mapped"
    /\ Len(users) = 2
    /\ users[1] = [id |-> <<"U","1">>,
                   profile |-> [present |-> TRUE, display_name |-> <<>>,
                                real_name |-> <<"D","e","e"," ","R","e","a","l">>],
                   name |-> <<"d","e","e">>]
    /\ users[2] = [id |-> <<"U","2">>, profile |-> NoProfile, name |-> Undefined]
    /\ userMap = << [key |-> <<"U","1">>, value |-> <<"D","e","e"," ","R","e","a","l">>],
                    [key |-> <<"U","2">>, value |-> <<"U","2">>] >>

(***************************************************************************)
(* C27: saveToCache replaces whatever the month's cache file held by one   *)
(* record stamped with the current time, and getCachedSummary called right *)
(* after it returns exactly the summary that was saved, for the summaries  *)
(* generateMonthSummary saves.                                             *)
(***************************************************************************)
C27_PutThenGet ==
    /\ (cachePc \in {"saved", "read"}) =>
          /\ cacheFile = <<"{","\n"," "," ","\"","t","i","m","e","s","t","a","m","p","\"",":"," ">> \o DecimalString(now)
                            \o <<",","\n"," "," ","\"","m","o","n","t","h","F","i","l","e","\"",":"," ","\"","2","0","2","1","-","0","5",".","m","d","\"",",","\n"," "," ","\"","s","u","m","m","a","r","y","\"",":"," ","\"">> \o JsonEscape(putSummary) \o <<"\"",",","\n"," "," ","\"","m","o","d","e","l","\"",":"," ","\"","g","p","t","-","5","-","m","i","n","i","\"","\n","}">>
          /\ FileOf(cacheFile) = EntryFile(now, putSummary)
    /\ (cachePc = "read") => gotSummary = putSummary

\* a summary with quotes, a backslash and a line break was saved and read
C27_Witness ==
    /\ cachePc = "read"
    /\ putSummary = Heading(MonthName("2021-05.md")) \o <<"S","a","i","d"," ","\"","h","i","\""," ","\\"," ","o","k","\n","B","y","e">>
    /\ gotSummary = putSummary
    /\ now = maxAge + 1

(***************************************************************************)
(* C28: if the process is killed at any point of saveToCache, the file it  *)
(* leaves is never accepted by a later getCachedSummary with a text other  *)
(* than the one being written: getCachedSummary returns null or the        *)
(* complete new summary.                                                   *)
(***************************************************************************)
C28_CrashLeavesNoWrongEntry ==
    /\ (cachePc \in {"writing", "crashed", "read after crash"}) =>
          getCachedSummary(FileOf(cacheFile), now) \in {Null, putSummary}
    /\ (cachePc = "read after crash") => gotSummary \in {Null, putSummary}
    /\ (cachePc = "read after crash" /\ gotSummary = putSummary) =>
          cacheFile = WrittenFile(putSummary, now)

\* the process was killed when all but the last character was written
C28_Witness ==
    /\ cachePc = "read after crash"
    /\ Len(cacheFile) = Len(WrittenFile(putSummary, now)) - 1
    /\ gotSummary = Null

(***************************************************************************)
(* C29 (the claim, which the code contradicts): for a month file of fewer  *)
(* than two lines no splitter is called: only the whole-month request is   *)
(* made, also when it fails for its size; no half, quarter or combine      *)
(* request follows.                                                        *)
(***************************************************************************)
C29_ShortDocumentNeverSplit ==
    (Len(LinesOf(docs[monthFile])) < 2) =>
       /\ halves = NoHalves
       /\ quarters = <<>>
       /\ calls["first"] = 0 /\ calls["second"] = 0
       /\ calls["quarter"] = 0 /\ calls["combine"] = 0

(***************************************************************************)
(* C30: splitMonthContent cuts at the first line starting with "## " that  *)
(* it finds scanning forward from the line of index floor(n/2) to the end  *)
(* of the document, and exactly at floor(n/2) when no line in that range   *)
(* starts with "## ".                                                      *)
(***************************************************************************)
C30_CutAtFirstBoundaryFromMidpoint ==
    (splitTwoResult # NotSplit) =>
        LET lines == LinesOf(splitArg)
            n     == Len(lines)
            mid   == n \div 2
            found == { k \in mid..(n - 1) :
                          /\ Len(lines[k + 1]) >= 3
                          /\ SubSeq(lines[k + 1], 1, 3) = <<"#","#"," ">> }
            cut   == IF found = {} THEN mid
                     ELSE CHOOSE k \in found : \A j \in found : k <= j
        IN  /\ splitTwoResult.firstHalf = TextOfLines(SubSeq(lines, 1, cut))
            /\ splitTwoResult.secondHalf = TextOfLines(SubSeq(lines, cut + 1, n))

\* a document of six lines with headings in its second, fifth and sixth
\* line was cut before the fifth
C30_Witness ==
    /\ splitTwoResult # NotSplit
    /\ LinesOf(splitArg) = << <<"1">>, <<"#","#"," ","2">>, <<"3">>, <<>>,
                              <<"#","#"," ","5">>, <<"#","#"," ","6">> >>
    /\ LinesOf(splitTwoResult.firstHalf) = << <<"1">>, <<"#","#"," ","2">>, <<"3">>, <<>> >>
    /\ LinesOf(splitTwoResult.secondHalf) = << <<"#","#"," ","5">>, <<"#","#"," ","6">> >>

(***************************************************************************)
(* Vocabulary of C31 and C38: the lines that start with "## ", and the     *)
(* cut that belongs to a target index: the first boundary line among the   *)
(* window lines from the target on, or the target when there is none.      *)
(***************************************************************************)
IsBoundaryLine(line) ==
    Len(line) >= 3 /\ SubSeq(line, 1, 3) = <<"#","#"," ">>

CutFor(lines, target, window) ==
    LET n     == Len(lines)
        found == { k \in target..(target + window - 1) :
                      k < n /\ IsBoundaryLine(lines[k + 1]) }
    IN  IF found = {} THEN target
        ELSE CHOOSE k \in found : \A j \in found : k <= j

\* the four segments that the cuts c1 <= c2 <= c3 make of the lines
SegmentsAt(lines, c1, c2, c3) ==
    << TextOfLines(SubSeq(lines, 1, c1)),
       TextOfLines(SubSeq(lines, c1 + 1, c2)),
       TextOfLines(SubSeq(lines, c2 + 1, c3)),
       TextOfLines(SubSeq(lines, c3 + 1, Len(lines))) >>

(***************************************************************************)
(* C31 (amended): with n the number of lines and q = floor(n/4) the        *)
(* quarter-length, the three target indices of splitMonthContentIntoFour   *)
(* are q, 2q and 3q (they are n/4, n/2 and 3n/4 only when 4 divides n);    *)
(* each split point is the first line starting with "## " among the q      *)
(* lines from its target on (and before the end of the document), or the   *)
(* target itself when that window holds none; the segments are the lines   *)
(* between the split points.                                               *)
(***************************************************************************)
C31_TargetsAndWindows ==
    (splitFourResult # <<>>) =>
        LET lines == LinesOf(splitArg)
            q     == Len(lines) \div 4
        IN  splitFourResult =
               SegmentsAt(lines, CutFor(lines, q, q), CutFor(lines, 2 * q, q),
                          CutFor(lines, 3 * q, q))

(***************************************************************************)
(* C31 as stated: the three targets are at 1/4, 1/2 and 3/4 of the number  *)
(* of lines (floor(n/4), floor(n/2), floor(3n/4)), each scanned forward    *)
(* over one quarter-length.                                                *)
(***************************************************************************)
C31_Original ==
    (splitFourResult # <<>>) =>
        LET lines == LinesOf(splitArg)
            n     == Len(lines)
            q     == n \div 4
        IN  splitFourResult =
               SegmentsAt(lines, CutFor(lines, n \div 4, q),
                          CutFor(lines, (2 * n) \div 4, q),
                          CutFor(lines, (3 * n) \div 4, q))

\* a document of eight lines (targets 2, 4, 6): the first cut moved to the
\* heading in the fourth line, the second stayed at its target because the
\* fifth and sixth line are no headings, the third moved to the eighth line
C31_Witness ==
    /\ splitFourResult # <<>>
    /\ LinesOf(splitArg) = << <<"1">>, <<"2">>, <<"3">>, <<"#","#"," ","4">>,
                              <<"5">>, <<>>, <<"7">>, <<"#","#"," ","8">> >>
    /\ LinesOf(splitFourResult[1]) = << <<"1">>, <<"2">>, <<"3">> >>
    /\ splitFourResult[2] = <<"#","#"," ","4">>
    /\ LinesOf(splitFourResult[3]) = << <<"5">>, <<>>, <<"7">> >>
    /\ splitFourResult[4] = <<"#","#"," ","8">>

(***************************************************************************)
(* C32 (the claim, which the code contradicts): the stored one-sentence    *)
(* summary is reused, with no request, if and only if it passes the rule   *)
(* of the summary cache (it exists, parses, is at most seven days old and  *)
(* has at least 10 characters); otherwise one request is made, its         *)
(* completion is written to the one-sentence cache, and the sentence       *)
(* stands in the returned summary right after the heading, as it is,       *)
(* before the body of the summary.                                         *)
(***************************************************************************)
\* the stored one-sentence summary passes the rule of the summary cache
C32_ValidAsCacheEntry ==
    LET file == oneSentenceCache[monthFile] IN
    /\ file.exists
    /\ file.parses
    /\ now - file.timestamp <= 7 * 24 * 60 * 60 * 1000
    /\ Len(file.text) >= 10

C32_Step ==
    /\ (pc = "oneSentence" /\ pc' \in {"splice", "oneSentenceCall"}) =>
          /\ (pc' = "splice") <=> C32_ValidAsCacheEntry
          /\ (pc' = "splice") =>
                /\ oneSentenceSummary' = oneSentenceCache[monthFile].text
                /\ calls' = calls
                /\ oneSentenceCache' = oneSentenceCache
    /\ (pc = "oneSentenceCall" /\ pc' = "splice" /\ last'.outcome.ok) =>
          /\ calls'["oneSentence"] = 1
          /\ last'.kind = "oneSentence"
          /\ oneSentenceCache'[monthFile] = EntryFile(now, oneSentenceSummary')
    /\ (pc = "splice" /\ pc' = "returned"
           /\ ~(last.kind = "oneSentence" /\ ~last.outcome.ok)) =>
          LET h == <<"#","#"," ">> \o MonthName(monthFile) \o <<"\n","\n">> IN
          (Len(fullSummary) >= Len(h) /\ SubSeq(fullSummary, 1, Len(h)) = h) =>
             result' = h \o <<"*","*","t","l",";","d","r",":","*","*"," ">>
                         \o oneSentenceSummary \o <<"\n","\n">>
                         \o SubSeq(fullSummary, Len(h) + 1, Len(fullSummary))

C32_DigestReuseRule == [][C32_Step]_vars

(***************************************************************************)
(* C33: every entry generateMonthSummary writes to the summary cache, on   *)
(* the placeholder, whole, two-part and four-part path alike, is the       *)
(* summary without annotation: the heading followed by the body, with no   *)
(* tl;dr line; the text returned with it is the placeholder itself or that *)
(* entry with the tl;dr line put in after the heading.                     *)
(***************************************************************************)
C33_Step ==
    (cache' # cache) =>
        LET written == cache'[monthFile]
            h       == <<"#","#"," ">> \o MonthName(monthFile) \o <<"\n","\n">>
        IN  /\ \A m \in MonthFiles \ {monthFile} : cache'[m] = cache[m]
            /\ written.exists /\ written.parses /\ written.timestamp = now
            /\ BeginsWith(written.text, h)
            /\ Occurrences(written.text, <<"*","*","t","l",";","d","r",":","*","*">>) = 0
            /\ pc' = "returned"
            /\ exit' \in {"placeholder", "whole", "halves", "quarters"}
            /\ IF exit' = "placeholder"
               THEN result' = written.text
               ELSE /\ SplicedFrom(result', written.text, MonthName(monthFile))
                    /\ result' # written.text

C33_CacheHoldsCanonicalSummary == [][C33_Step]_vars

\* the four quarters were summarized and combined: the entry is the heading
\* and the combined text, the returned text has the tl;dr line as well
C33_Witness ==
    /\ pc = "returned"
    /\ exit = "quarters"
    /\ cache[monthFile].text
          = <<"#","#"," ">> \o MonthName(monthFile) \o <<"\n","\n">>
               \o <<"C","o","m","b","i","n","e","d">>
    /\ Occurrences(result, <<"*","*","t","l",";","d","r",":","*","*">>) = 1

(***************************************************************************)
(* C34: whatever each request does (completes, fails for the token limit   *)
(* or fails otherwise), the processing of one month makes at most one      *)
(* whole-month request, one request per half, four quarter requests, one   *)
(* combine request and one one-sentence request, nine requests at most,    *)
(* and generateMonthSummary, once main has called it, returns.             *)
(***************************************************************************)
C34_TerminatesWithinNineCalls ==
    /\ [](/\ calls["whole"] <= 1
          /\ calls["first"] <= 1
          /\ calls["second"] <= 1
          /\ calls["quarter"] <= 4
          /\ calls["combine"] <= 1
          /\ calls["oneSentence"] <= 1
          /\ TotalCalls <= 9)
    /\ (mainPc = "generating" /\ pc = "start") ~> (pc = "returned")

\* a month has returned after nine requests: the month, two halves, four
\* quarters, the combination and the one-sentence summary
C34_Witness ==
    /\ mainPc = "generating"
    /\ pc = "returned"
    /\ TotalCalls = 9
    /\ calls["quarter"] = 4
    /\ calls["oneSentence"] = 1

(***************************************************************************)
(* C35 (the claim, which the code contradicts): a one-sentence summary is  *)
(* on disk for a month only if the summary it was made from is on disk as  *)
(* well; in particular, whenever generateMonthSummary is not running,      *)
(* because it has returned or because the process was killed inside it, a  *)
(* month with a stored one-sentence summary has a stored summary.          *)
(***************************************************************************)
C35_DigestNeverWithoutParent ==
    (pc \in {"idle", "returned"}) =>
        \A m \in MonthFiles :
            oneSentenceCache[m].exists => cache[m].exists

(***************************************************************************)
(* C36 (the claim, which the code contradicts): no entry of the summary    *)
(* cache written by generateMonthSummary has an empty or trivial body      *)
(* after its heading, the fixed placeholder apart; in particular, halves   *)
(* or quarters whose summaries are empty or white space never leave an     *)
(* entry that is the heading alone (a body with no character other than    *)
(* white space).                                                           *)
(***************************************************************************)
C36_NoHeadingOnlyEntry ==
    \A m \in MonthFiles :
        (cache[m].exists /\ cache[m].parses) =>
            LET h    == <<"#","#"," ">> \o MonthName(m) \o <<"\n","\n">>
                text == cache[m].text
            IN  /\ BeginsWith(text, h)
                /\ \E i \in (Len(h) + 1)..Len(text) : text[i] \notin {" ", "\n", "\t", "\r"}

(***************************************************************************)
(* C37 (the claim, which the code contradicts): at the end of every run    *)
(* the reported number of cached summaries plus the reported number of new *)
(* API calls is the number of months processed, also when an entry that    *)
(* was valid at the cache scan has expired when its month is processed.    *)
(***************************************************************************)
C37_CountsAddUp ==
    (mainPc = "done") => Report.cached + Report.apiCalls = Report.processed

(***************************************************************************)
(* C38: splitMonthContent on a document of two lines or more yields two    *)
(* segments of at least one line each, and splitMonthContentIntoFour on a  *)
(* document of four lines or more yields four segments of at least one     *)
(* line each, wherever the lines starting with "## " are: the segments are *)
(* the texts of consecutive, non-empty ranges of the document's lines.     *)
(***************************************************************************)
C38_SegmentsHaveLines ==
    LET lines == LinesOf(splitArg)
        n     == Len(lines)
    IN  /\ (splitTwoResult # NotSplit /\ n >= 2) =>
              \E k \in 1..(n - 1) :
                  /\ splitTwoResult.firstHalf = TextOfLines(SubSeq(lines, 1, k))
                  /\ splitTwoResult.secondHalf = TextOfLines(SubSeq(lines, k + 1, n))
        /\ (splitFourResult # <<>> /\ n >= 4) =>
              \E k1 \in 1..(n - 3) : \E k2 \in (k1 + 1)..(n - 2) :
                 \E k3 \in (k2 + 1)..(n - 1) :
                    splitFourResult = SegmentsAt(lines, k1, k2, k3)

\* a document of four lines has been split both ways: three lines and one,
\* and four segments of one line each, the third one an empty line
C38_Witness ==
    /\ LinesOf(splitArg) = << <<"#","#"," ","1">>, <<"2">>, <<>>, <<"#","#"," ","4">> >>
    /\ splitTwoResult # NotSplit
    /\ LinesOf(splitTwoResult.firstHalf) = << <<"#","#"," ","1">>, <<"2">>, <<>> >>
    /\ splitTwoResult.secondHalf = <<"#","#"," ","4">>
    /\ splitFourResult = << <<"#","#"," ","1">>, <<"2">>, <<>>, <<"#","#"," ","4">> >>

(***************************************************************************)
(* C39 (the claim, which the code contradicts): a stored entry that parses *)
(* but whose timestamp is missing or is no number is never reused:         *)
(* getCachedSummary treats it as absent, so generateMonthSummary requests  *)
(* the month anew, and generateOneSentenceSummary requests the sentence    *)
(* anew.                                                                   *)
(***************************************************************************)
C39_Untimed(file) == file.exists /\ file.parses /\ file.timestamp = NoTimestamp

C39_Step ==
    /\ (pc = "start" /\ pc' \notin {"start", "idle"}
           /\ C39_Untimed(cache[monthFile])) =>
          /\ pc' = "whole"
          /\ fullSummary' # cache[monthFile].text
    /\ (pc = "oneSentence" /\ pc' \notin {"oneSentence", "idle"}
           /\ C39_Untimed(oneSentenceCache[monthFile])) =>
          /\ pc' = "oneSentenceCall"
          /\ oneSentenceSummary' # oneSentenceCache[monthFile].text

C39_UntimedEntryIsAbsent == [][C39_Step]_vars

====
